---- MODULE Spec2Model ----
(***************************************************************************)
(* Harambee SACCO back office: the domain service layer                    *)
(* (src/src/lib/sacco-services.ts) and the report engine                   *)
(* (src/src/db/index.ts) over the relational datastore                     *)
(* (src/unnamed/part_001, the schema).                                     *)
(*                                                                         *)
(* A table is a sequence of rows; a row's id is its position (serial       *)
(* primary keys, and no operation deletes).  Money columns are exact       *)
(* rationals <<n, d>>; a nullable column holds Null == << >> or a wrapped  *)
(* value.  A handler is one action; where it awaits several statements in  *)
(* turn, the action also yields the states in which the process stopped    *)
(* between two of them.                                                    *)
(***************************************************************************)
EXTENDS Integers, Sequences, FiniteSets, TLC

VARIABLES members, savings, loans, transactions, creditChecks, auditLogs,
          loanRestructuring, complianceRecords, approvals, resp, nOps, now,
          guarantors, penalties, reminders, campaigns, partners, resources,
          backups, settings, reports, inflight

vars == <<members, savings, loans, transactions, creditChecks, auditLogs,
          loanRestructuring, complianceRecords, approvals, resp, nOps, now,
          guarantors, penalties, reminders, campaigns, partners, resources,
          backups, settings, reports, inflight>>

(* the tables the loan, restructuring, compliance and summary operations
   never touch *)
otherTables == <<guarantors, penalties, reminders, campaigns, partners, resources,
                 backups, settings, reports>>

NoOtherRows ==
  /\ guarantors = << >>
  /\ penalties = << >>
  /\ reminders = << >>
  /\ campaigns = << >>
  /\ partners = << >>
  /\ resources = << >>
  /\ backups = << >>
  /\ settings = << >>
  /\ reports = << >>

-----------------------------------------------------------------------------
(* SQL NULL / JS null and undefined *)
Null == << >>

IsNull(x) == x = Null

(* ---- exact rationals <<n, d>>, d > 0, in lowest terms ---- *)
Abs(x) == IF x < 0 THEN 0 - x ELSE x

RECURSIVE GCD(_, _)
GCD(a, b) == IF b = 0 THEN a ELSE GCD(b, a % b)

Rat(n, d) ==
  LET g == GCD(Abs(n), d) IN IF n = 0 THEN <<0, 1>> ELSE <<n \div g, d \div g>>

RInt(n) == <<n, 1>>

RAdd(a, b) == Rat(a[1] * b[2] + b[1] * a[2], a[2] * b[2])

RSub(a, b) == Rat(a[1] * b[2] - b[1] * a[2], a[2] * b[2])

RMul(a, b) == Rat(a[1] * b[1], a[2] * b[2])

(* a / n for an integer n > 0 *)
RDivInt(a, n) == Rat(a[1], a[2] * n)

RLe(a, b) == a[1] * b[2] <= b[1] * a[2]

RLt(a, b) == a[1] * b[2] < b[1] * a[2]

RMin(a, b) == IF RLe(a, b) THEN a ELSE b

RIsZero(a) == a[1] = 0

(* Math.round: the nearest integer, a tie going up: floor(x + 1/2) *)
MathRound(a) == (2 * a[1] + a[2]) \div (2 * a[2])

Max(a, b) == IF a >= b THEN a ELSE b

Min(a, b) == IF a <= b THEN a ELSE b

(* the rows of a table that satisfy a predicate, as a set of ids *)
Ids(table) == 1..Len(table)

RECURSIVE RSum(_, _)
RSum(table, ids) ==
  IF ids = {} THEN RInt(0)
  ELSE LET i == CHOOSE x \in ids : TRUE
       IN RAdd(table[i], RSum(table, ids \ {i}))

(* SQL sum(col) over the rows `ids`: NULL over no row *)
SqlSum(table, col, ids) ==
  IF ids = {} THEN Null
  ELSE RSum([i \in Ids(table) |-> table[i][col]], ids)

OrZeroKeepsNull(x) == x

(* JS `x || 0` for a number or null: null, undefined and 0 all give 0 *)
OrZero(x) == IF IsNull(x) THEN RInt(0) ELSE IF RIsZero(x) THEN RInt(0) ELSE x

(* JS truthiness of a number-or-null *)
Truthy(x) == ~IsNull(x) /\ ~RIsZero(x)

-----------------------------------------------------------------------------
(* ---- bounds of the model ---- *)
MaxOps == 2

StartDay == 10

(* ---- program constants ---- *)
BaseScore == 100

LoanDeductionCap == 50

LoanDeductionDivisor == 10000

RatioHigh == 3

RatioVeryHigh == 5

RatioHighDeduction == 20

RatioVeryHighDeduction == 30

LatePaymentCap == 30

LatePaymentWeight == 5

PassMark == 50

MaxLoanFactor == 3

GoodScore == 80

TermMonths == 12

DueDays == 365

(* ---- inputs ---- *)
MemberIds == {1, 2, 3}

Amounts == {150, 300, 400, 600}

(* ---- rows ---- *)
Member(num, phone, active, joined) ==
  [memberNumber |-> num, firstName |-> "Jane", lastName |-> "Doe", email |-> "NULL",
   phone |-> phone, isActive |-> active, joinedAt |-> joined,
   twoFactorEnabled |-> FALSE, twoFactorSecret |-> "NULL", passwordHash |-> "NULL",
   lastLoginAt |-> Null, updatedAt |-> <<joined>>]

Saving(m, bal, active) == [memberId |-> m, balance |-> RInt(bal), isActive |-> active]

(* a loan that was in the datastore before the run: interest-free, unpaid *)
OldLoan(m, bal, st, disbursed) ==
  [memberId |-> m, principalAmount |-> RInt(bal), interestRate |-> RInt(0),
   interestAmount |-> RInt(0), totalAmount |-> RInt(bal), paidAmount |-> RInt(0),
   balance |-> RInt(bal), termMonths |-> TermMonths,
   installmentAmount |-> RDivInt(RInt(bal), TermMonths), status |-> st,
   disbursedAt |-> disbursed, dueDate |-> Null, updatedAt |-> disbursed]

Txn(m, type, amt, date) ==
  [memberId |-> m, transactionType |-> type, amount |-> RInt(amt),
   transactionDate |-> date]

RECURSIVE Repeat(_, _)
Repeat(x, n) == IF n = 0 THEN << >> ELSE <<x>> \o Repeat(x, n - 1)

(* ---- the datastore before the run: member 1's history varies, member 2's
        is fixed, member 3 does not exist ---- *)
SavingsProfiles ==
  { << >>,
    <<Saving(1, 0, TRUE)>>,
    <<Saving(1, 100, TRUE)>>,
    <<Saving(1, 100, TRUE), Saving(1, 1000, FALSE)>>,
    <<Saving(1, 60, TRUE), Saving(1, 40, TRUE)>> }

LoanProfiles ==
  { << >>,
    <<OldLoan(1, 5000, "disbursed", <<StartDay - 2>>)>>,
    <<OldLoan(1, 5000, "disbursed", <<StartDay - 2>>),
      OldLoan(1, 595000, "disbursed", <<StartDay - 1>>)>> }

RepaymentCounts == {0, 4, 7}

InitMembers == <<Member("M1", "p1", TRUE, StartDay - 5), Member("M2", "p2", TRUE, StartDay - 4)>>

NoResp == [op |-> "none"]

(* the requests being served: none outside the concurrent desk *)
NoCalls == [registrations |-> << >>, summaries |-> << >>]

InitLoanDesk ==
  /\ members = InitMembers
  /\ \E sp \in SavingsProfiles : savings = <<Saving(2, 500, TRUE)>> \o sp
  /\ \E lp \in LoanProfiles :
       loans = <<OldLoan(1, 70000, "defaulted", <<StartDay - 3>>),
                 OldLoan(2, 20000, "disbursed", <<StartDay - 3>>)>> \o lp
  /\ \E n \in RepaymentCounts :
       transactions = <<Txn(1, "deposit", 100, StartDay - 1),
                        Txn(2, "loan_repayment", 100, StartDay - 1),
                        Txn(1, "loan_repayment", 100, StartDay + 1)>>
                      \o Repeat(Txn(1, "loan_repayment", 100, StartDay - 1), n)
  /\ creditChecks = << >>
  /\ auditLogs = << >>
  /\ loanRestructuring = << >>
  /\ complianceRecords = << >>
  /\ approvals = {}
  /\ NoOtherRows
  /\ resp = NoResp
  /\ nOps = 0
  /\ now = StartDay
  /\ inflight = NoCalls

-----------------------------------------------------------------------------
(* ---- performCreditCheck ---- *)
MemberExists(memberId) == memberId \in Ids(members)

(* sum(loans.balance) of the member's disbursed loans *)
ExistingLoansTotal(memberId) ==
  SqlSum(loans, "balance",
         {i \in Ids(loans) : loans[i].memberId = memberId /\ loans[i].status = "disbursed"})

(* sum(savings.balance) of the member's active savings accounts *)
SavingsTotal(memberId) ==
  SqlSum(savings, "balance",
         {i \in Ids(savings) : savings[i].memberId = memberId /\ savings[i].isActive})

(* the number of the member's loan_repayment transactions dated before now *)
LatePaymentsCount(memberId) ==
  Cardinality({i \in Ids(transactions) :
                 /\ transactions[i].memberId = memberId
                 /\ transactions[i].transactionType = "loan_repayment"
                 /\ transactions[i].transactionDate < now})

LoanDeduction(totalBalance) ==
  IF Truthy(totalBalance)
  THEN RMin(RInt(LoanDeductionCap), RDivInt(totalBalance, LoanDeductionDivisor))
  ELSE RInt(0)

RatioDeductionLargest(loanAmount, total) ==
  IF Truthy(total)
  THEN IF RLt(RMul(RInt(RatioVeryHigh), total), RInt(loanAmount))
       THEN RatioVeryHighDeduction
       ELSE IF RLt(RMul(RInt(RatioHigh), total), RInt(loanAmount))
       THEN RatioHighDeduction ELSE 0
  ELSE 0

(* ratio = loanAmount / total; ratio > 3 costs 20, ratio > 5 costs 30 more *)
RatioDeduction(loanAmount, total) ==
  IF Truthy(total)
  THEN (IF RLt(RMul(RInt(RatioHigh), total), RInt(loanAmount))
        THEN RatioHighDeduction ELSE 0)
       + (IF RLt(RMul(RInt(RatioVeryHigh), total), RInt(loanAmount))
          THEN RatioVeryHighDeduction ELSE 0)
  ELSE 0

LatePaymentDeduction(count) ==
  IF count # 0 THEN Min(LatePaymentCap, count * LatePaymentWeight) ELSE 0

(* the unrounded score *)
CreditScore(memberId, loanAmount) ==
  RSub(RSub(RSub(RInt(BaseScore), LoanDeduction(ExistingLoansTotal(memberId))),
            RInt(RatioDeduction(loanAmount, SavingsTotal(memberId)))),
       RInt(LatePaymentDeduction(LatePaymentsCount(memberId))))

PersistedScore(score) == Max(0, Min(100, MathRound(score)))

CheckStatus(score) == IF RLe(RInt(PassMark), score) THEN "passed" ELSE "failed"

CreditCheckRow(memberId, loanAmount) ==
  LET score == CreditScore(memberId, loanAmount)
  IN [memberId |-> memberId,
      creditScore |-> PersistedScore(score),
      existingLoans |-> OrZero(ExistingLoansTotal(memberId)),
      latePayments |-> LatePaymentsCount(memberId),
      status |-> CheckStatus(score)]

InsertCreditCheckLost(row) == creditChecks

(* the insert into credit_checks *)
InsertCreditCheck(row) == Append(creditChecks, row)

PerformCreditCheck(memberId, loanAmount) ==
  /\ nOps' = nOps + 1
  /\ IF ~MemberExists(memberId)
     THEN /\ resp' = [op |-> "performCreditCheck", memberId |-> memberId,
                      loanAmount |-> loanAmount, outcome |-> "MemberNotFound"]
          /\ UNCHANGED creditChecks
     ELSE /\ creditChecks' = InsertCreditCheck(CreditCheckRow(memberId, loanAmount))
          /\ resp' = [op |-> "performCreditCheck", memberId |-> memberId,
                      loanAmount |-> loanAmount, outcome |-> "ok",
                      score |-> CreditScore(memberId, loanAmount),
                      checkId |-> Len(creditChecks) + 1]
  /\ UNCHANGED otherTables
  /\ UNCHANGED <<members, savings, loans, transactions, auditLogs,
                 loanRestructuring, complianceRecords, approvals, now, inflight>>

-----------------------------------------------------------------------------
(* ---- logAuditTrail ---- *)
AuditRow(userId, action, entityType, entityId) ==
  [userId |-> userId, action |-> action, entityType |-> entityType,
   entityId |-> entityId, status |-> "success"]

(* ---- quickLoanApproval ---- *)
CheckPassedAlways(row) == TRUE

CheckPassed(row) == row.status = "passed"

(* The balances the unordered one-row read of the member's active savings can
   return: any of the matching rows comes first; Null when there is none. *)
FirstActiveSavingsBalance(memberId) ==
  LET rows == {i \in Ids(savings) : savings[i].memberId = memberId /\ savings[i].isActive}
  IN IF rows = {} THEN {Null} ELSE {savings[i].balance : i \in rows}

MaxLoanFiveTimes(balance) == RMul(OrZero(balance), RInt(RatioVeryHigh))

MaxLoan(balance) == RMul(OrZero(balance), RInt(MaxLoanFactor))

(* the amount is never compared with the maximum *)
ExceedsMaxLoanUnchecked(amount, balance) == FALSE

ExceedsMaxLoan(amount, balance) == RLt(MaxLoan(balance), RInt(amount))

InterestRateStrict(creditScore) == IF creditScore > GoodScore THEN RInt(1) ELSE Rat(3, 2)

(* percent per month: 1.0 or 1.5 *)
InterestRate(creditScore) == IF creditScore >= GoodScore THEN RInt(1) ELSE Rat(3, 2)

InterestAmount(amount, rate) ==
  RMul(RMul(RInt(amount), RDivInt(rate, 100)), RInt(TermMonths))

InstallmentAmount(totalAmount) == RDivInt(totalAmount, TermMonths)

NewLoanOwesPrincipal(memberId, amount, creditScore) ==
  LET rate == InterestRate(creditScore)
      interest == InterestAmount(amount, rate)
      total == RAdd(RInt(amount), interest)
  IN [memberId |-> memberId, principalAmount |-> RInt(amount), interestRate |-> rate,
      interestAmount |-> interest, totalAmount |-> total, paidAmount |-> RInt(0),
      balance |-> RInt(amount), termMonths |-> TermMonths,
      installmentAmount |-> InstallmentAmount(total), status |-> "approved",
      disbursedAt |-> Null, dueDate |-> <<now + DueDays>>, updatedAt |-> <<now>>]

NewLoan(memberId, amount, creditScore) ==
  LET rate == InterestRate(creditScore)
      interest == InterestAmount(amount, rate)
      total == RAdd(RInt(amount), interest)
  IN [memberId |-> memberId, principalAmount |-> RInt(amount), interestRate |-> rate,
      interestAmount |-> interest, totalAmount |-> total, paidAmount |-> RInt(0),
      balance |-> total, termMonths |-> TermMonths,
      installmentAmount |-> InstallmentAmount(total), status |-> "approved",
      disbursedAt |-> Null, dueDate |-> <<now + DueDays>>, updatedAt |-> <<now>>]

QuickLoanStops == {"none", "afterCreditCheck", "afterLoanInsert"}

QuickLoanResp(memberId, amount, outcome, checkId, loanId, balance) ==
  [op |-> "quickLoanApproval", memberId |-> memberId, amount |-> amount,
   outcome |-> outcome, checkId |-> checkId, loanId |-> loanId,
   balanceRead |-> balance]

(* `balance` is what the savings read returns; `stop` is where the process
   stopped, "none" when the handler ran to its return or its throw. *)
QuickLoanApproval(memberId, amount, stop, balance) ==
  /\ nOps' = nOps + 1
  /\ balance \in FirstActiveSavingsBalance(memberId)
  /\ LET row == CreditCheckRow(memberId, amount)
         checkId == Len(creditChecks) + 1
         loanId == Len(loans) + 1
         loan == NewLoan(memberId, amount, row.creditScore)
     IN IF ~MemberExists(memberId)
        THEN /\ stop = "none"
             /\ resp' = QuickLoanResp(memberId, amount, "MemberNotFound", 0, 0, Null)
             /\ UNCHANGED <<creditChecks, loans, auditLogs>>
        ELSE IF stop = "afterCreditCheck"
        THEN /\ creditChecks' = InsertCreditCheck(row)
             /\ resp' = QuickLoanResp(memberId, amount, "stopped", checkId, 0, Null)
             /\ UNCHANGED <<loans, auditLogs>>
        ELSE IF ~CheckPassed(row)
        THEN /\ stop = "none"
             /\ creditChecks' = InsertCreditCheck(row)
             /\ resp' = QuickLoanResp(memberId, amount, "CreditCheckFailed", checkId, 0, Null)
             /\ UNCHANGED <<loans, auditLogs>>
        ELSE IF ExceedsMaxLoan(amount, balance)
        THEN /\ stop = "none"
             /\ creditChecks' = InsertCreditCheck(row)
             /\ resp' = QuickLoanResp(memberId, amount, "ExceedsLimit", checkId, 0, balance)
             /\ UNCHANGED <<loans, auditLogs>>
        ELSE /\ creditChecks' = InsertCreditCheck(row)
             /\ loans' = Append(loans, loan)
             /\ IF stop = "afterLoanInsert"
                THEN /\ resp' = QuickLoanResp(memberId, amount, "stopped", checkId, loanId, balance)
                     /\ UNCHANGED auditLogs
                ELSE /\ resp' = QuickLoanResp(memberId, amount, "ok", checkId, loanId, balance)
                     /\ auditLogs' = Append(auditLogs,
                                            AuditRow(<<memberId>>, "loan_approved", "loan", <<loanId>>))
  /\ UNCHANGED otherTables
  /\ UNCHANGED <<members, savings, transactions, loanRestructuring,
                 complianceRecords, approvals, now, inflight>>

-----------------------------------------------------------------------------
(* ---- requestLoanRestructuring ---- *)
LoanExists(loanId) == loanId \in Ids(loans)

(* newInstallment = balance / newTerm *)
NewInstallment(loan, newTerm) == RDivInt(loan.balance, newTerm)

RestructureRow(loanId, restructuringType, newTerm) ==
  [loanId |-> loanId, restructuringType |-> restructuringType,
   originalTerm |-> <<loans[loanId].termMonths>>, newTerm |-> <<newTerm>>,
   originalInstallment |-> loans[loanId].installmentAmount,
   newInstallment |-> NewInstallment(loans[loanId], newTerm),
   status |-> "pending", approvedAt |-> Null, approvedBy |-> "NULL"]

RequestLoanRestructuring(loanId, restructuringType, newTerm) ==
  /\ nOps' = nOps + 1
  /\ IF ~LoanExists(loanId)
     THEN /\ resp' = [op |-> "requestLoanRestructuring", loanId |-> loanId,
                      newTerm |-> newTerm, outcome |-> "LoanNotFound"]
          /\ UNCHANGED loanRestructuring
     ELSE /\ loanRestructuring' =
               Append(loanRestructuring, RestructureRow(loanId, restructuringType, newTerm))
          /\ resp' = [op |-> "requestLoanRestructuring", loanId |-> loanId,
                      newTerm |-> newTerm, outcome |-> "ok"]
  /\ UNCHANGED otherTables
  /\ UNCHANGED <<members, savings, loans, transactions, creditChecks, auditLogs,
                 complianceRecords, approvals, now, inflight>>

(* ---- approveLoanRestructuring ---- *)
RestructureExists(restructureId) == restructureId \in Ids(loanRestructuring)

(* !restructure.newTerm || !restructure.newInstallment: null and 0 are both falsy *)
TermsNotSet(restructure) ==
  \/ IsNull(restructure.newTerm)
  \/ restructure.newTerm[1] = 0
  \/ ~Truthy(restructure.newInstallment)

UpdateLoanTermsOriginal(restructure) ==
  [i \in Ids(loans) |->
     IF i = restructure.loanId
     THEN [loans[i] EXCEPT !.termMonths = restructure.originalTerm[1],
                           !.installmentAmount = restructure.originalInstallment,
                           !.updatedAt = <<now>>]
     ELSE loans[i]]

(* the update also marks the loan as restructured *)
UpdateLoanTermsRestructured(restructure) ==
  [i \in Ids(loans) |->
     IF i = restructure.loanId
     THEN [loans[i] EXCEPT !.termMonths = restructure.newTerm[1],
                           !.installmentAmount = restructure.newInstallment,
                           !.status = "restructured",
                           !.updatedAt = <<now>>]
     ELSE loans[i]]

(* update loans set termMonths, installmentAmount, updatedAt where id = loanId *)
UpdateLoanTerms(restructure) ==
  [i \in Ids(loans) |->
     IF i = restructure.loanId
     THEN [loans[i] EXCEPT !.termMonths = restructure.newTerm[1],
                           !.installmentAmount = restructure.newInstallment,
                           !.updatedAt = <<now>>]
     ELSE loans[i]]

MarkApprovedAnonymous(restructureId, approvedBy) ==
  [i \in Ids(loanRestructuring) |->
     IF i = restructureId
     THEN [loanRestructuring[i] EXCEPT !.status = "approved", !.approvedAt = <<now>>]
     ELSE loanRestructuring[i]]

(* update loan_restructuring set status, approvedAt, approvedBy where id = restructureId *)
MarkApproved(restructureId, approvedBy) ==
  [i \in Ids(loanRestructuring) |->
     IF i = restructureId
     THEN [loanRestructuring[i] EXCEPT !.status = "approved",
                                      !.approvedAt = <<now>>,
                                      !.approvedBy = approvedBy]
     ELSE loanRestructuring[i]]

ApproveStops == {"none", "afterLoanUpdate", "afterRestructureUpdate"}

ApproveResp(restructureId, approvedBy, outcome, stop) ==
  [op |-> "approveLoanRestructuring", restructureId |-> restructureId,
   approvedBy |-> approvedBy, outcome |-> outcome, stop |-> stop]

(* `stop` is where the process stopped, "none" when the handler ran to its
   return or its throw. *)
ApproveLoanRestructuring(restructureId, approvedBy, stop) ==
  /\ nOps' = nOps + 1
  /\ IF ~RestructureExists(restructureId)
     THEN /\ stop = "none"
          /\ resp' = ApproveResp(restructureId, approvedBy, "RestructureNotFound", stop)
          /\ UNCHANGED <<loans, loanRestructuring, auditLogs, approvals>>
     ELSE LET restructure == loanRestructuring[restructureId] IN
          IF TermsNotSet(restructure)
          THEN /\ stop = "none"
               /\ resp' = ApproveResp(restructureId, approvedBy, "TermsNotSet", stop)
               /\ UNCHANGED <<loans, loanRestructuring, auditLogs, approvals>>
          ELSE /\ loans' = UpdateLoanTerms(restructure)
               /\ IF stop = "afterLoanUpdate"
                  THEN /\ resp' = ApproveResp(restructureId, approvedBy, "stopped", stop)
                       /\ UNCHANGED <<loanRestructuring, auditLogs, approvals>>
                  ELSE /\ loanRestructuring' = MarkApproved(restructureId, approvedBy)
                       /\ IF stop = "afterRestructureUpdate"
                          THEN /\ resp' = ApproveResp(restructureId, approvedBy, "stopped", stop)
                               /\ UNCHANGED <<auditLogs, approvals>>
                          ELSE /\ auditLogs' =
                                    Append(auditLogs,
                                           AuditRow(Null, "restructure_approved", "loan",
                                                    <<restructure.loanId>>))
                               /\ approvals' = approvals \cup {restructureId}
                               /\ resp' = ApproveResp(restructureId, approvedBy, "ok", stop)
  /\ UNCHANGED otherTables
  /\ UNCHANGED <<members, savings, transactions, creditChecks, complianceRecords, now, inflight>>

-----------------------------------------------------------------------------
(* ---- the loan desk: credit checks and quick loan approvals ---- *)
CreditCheckCall ==
  /\ nOps < MaxOps
  /\ \E m \in MemberIds, a \in Amounts : PerformCreditCheck(m, a)

QuickLoanCall ==
  /\ nOps < MaxOps
  /\ \E m \in MemberIds, a \in Amounts, stop \in QuickLoanStops :
       \E b \in FirstActiveSavingsBalance(m) : QuickLoanApproval(m, a, stop, b)

NextLoanDesk == CreditCheckCall \/ QuickLoanCall

Spec == InitLoanDesk /\ [][NextLoanDesk]_vars

-----------------------------------------------------------------------------
(* ---- the restructuring desk ---- *)
MaxRestructureOps == 4

MaxRestructurings == 2

NewTerms == {6, 24}

Approvers == {"admin", "chair"}

(* a restructuring row written without terms (both columns are nullable) *)
UntermedRestructure ==
  [loanId |-> 1, restructuringType |-> "deferment", originalTerm |-> <<TermMonths>>,
   newTerm |-> Null, originalInstallment |-> Null, newInstallment |-> Null,
   status |-> "pending", approvedAt |-> Null, approvedBy |-> "NULL"]

InitRestructure ==
  /\ members = InitMembers
  /\ savings = <<Saving(1, 100, TRUE), Saving(2, 500, TRUE)>>
  /\ loans = <<OldLoan(1, 6000, "disbursed", <<StartDay - 3>>),
               OldLoan(2, 0, "fully_paid", <<StartDay - 3>>)>>
  /\ transactions = << >>
  /\ creditChecks = << >>
  /\ auditLogs = << >>
  /\ loanRestructuring \in {<< >>, <<UntermedRestructure>>}
  /\ complianceRecords = << >>
  /\ approvals = {}
  /\ NoOtherRows
  /\ resp = NoResp
  /\ nOps = 0
  /\ now = StartDay
  /\ inflight = NoCalls

RequestRestructuringCall ==
  /\ nOps < MaxRestructureOps
  /\ Len(loanRestructuring) < MaxRestructurings
  /\ \E l \in 1..(Len(loans) + 1), t \in NewTerms :
       RequestLoanRestructuring(l, "extension", t)

ApproveRestructuringCall ==
  /\ nOps < MaxRestructureOps
  /\ \E r \in 1..(Len(loanRestructuring) + 1), by \in Approvers, stop \in ApproveStops :
       ApproveLoanRestructuring(r, by, stop)

NextRestructure == RequestRestructuringCall \/ ApproveRestructuringCall

SpecRestructure == InitRestructure /\ [][NextRestructure]_vars

-----------------------------------------------------------------------------
(* ---- IEEE 754 doubles, as far as trackCompliance needs them ----
   A positive double is [m |-> 53 bits, most significant first and leading 1,
   e |-> the binary exponent of the leading bit]. *)
Precision == 53

RECURSIVE Pow2(_)
Pow2(k) == IF k = 0 THEN 1 ELSE 2 * Pow2(k - 1)

RECURSIVE Pow2Mod(_, _)
(* 2^i mod t, by repeated squaring *)
Pow2Mod(i, t) ==
  IF i = 0 THEN 1 % t
  ELSE LET h == Pow2Mod(i \div 2, t)
       IN (h * h * (IF i % 2 = 1 THEN 2 ELSE 1)) % t

(* b + 1 for a bit sequence b; one bit longer when b is all ones *)
BitsInc(b) ==
  LET zeros == {i \in 1..Len(b) : b[i] = 0}
  IN IF zeros = {} THEN <<1>> \o [i \in 1..Len(b) |-> 0]
     ELSE LET j == CHOOSE i \in zeros : \A k \in zeros : k <= i
          IN [i \in 1..Len(b) |-> IF i < j THEN b[i] ELSE IF i = j THEN 1 ELSE 0]

(* Round the bits (at least 53, leading 1, leading bit of exponent e, `sticky`
   telling of non-zero bits beyond them) to 53 bits, to nearest, ties to even. *)
RoundToEven(bits, e, sticky) ==
  LET keep == SubSeq(bits, 1, Precision)
      rest == SubSeq(bits, Precision + 1, Len(bits))
      guard == IF rest = << >> THEN 0 ELSE rest[1]
      more == sticky \/ \E i \in 2..Len(rest) : rest[i] = 1
      up == guard = 1 /\ (more \/ keep[Precision] = 1)
      inc == BitsInc(keep)
  IN IF ~up THEN [m |-> keep, e |-> e]
     ELSE IF Len(inc) > Precision THEN [m |-> SubSeq(inc, 1, Precision), e |-> e + 1]
     ELSE [m |-> inc, e |-> e]

RECURSIVE ShiftFor(_, _)
(* the least k with c * 2^k >= t *)
ShiftFor(c, t) == IF c >= t THEN 0 ELSE 1 + ShiftFor(2 * c, t)

(* c / t in double arithmetic, for integers 0 < c <= t: the leading 1, then
   fraction bit i = floor(r0 * 2^i / t) mod 2, where r0 = c * 2^k - t; one bit
   more than the precision is produced, and what is left decides the ties. *)
DoubleDiv(c, t) ==
  LET k == ShiftFor(c, t)
      r0 == c * Pow2(k) - t
      Rem(i) == (r0 * Pow2Mod(i, t)) % t
      bits == [j \in 1..(Precision + 1) |->
                 IF j = 1 THEN 1 ELSE IF 2 * Rem(j - 2) >= t THEN 1 ELSE 0]
  IN RoundToEven(bits, 0 - k, Rem(Precision) # 0)

RECURSIVE BinaryOf(_)
BinaryOf(k) == IF k = 0 THEN << >> ELSE BinaryOf(k \div 2) \o <<k % 2>>

(* limbs of 13 bits, counted from the least significant end *)
Limb == Pow2(13)

RECURSIVE LimbOf(_, _, _)
(* the value of bits lo..hi of b *)
LimbOf(b, lo, hi) == IF hi < lo THEN 0 ELSE 2 * LimbOf(b, lo, hi - 1) + b[hi]

LimbBits(v) == [j \in 1..13 |-> (v \div Pow2(13 - j)) % 2]

RECURSIVE MulBits(_, _, _)
(* the bits of b * n + carry * 2^Len(b), a limb at a time *)
MulBits(b, n, carry) ==
  LET lo == Max(1, Len(b) - 12)
      v == LimbOf(b, lo, Len(b)) * n + carry
  IN IF lo = 1 THEN BinaryOf(v)
     ELSE MulBits(SubSeq(b, 1, lo - 1), n, v \div Limb) \o LimbBits(v % Limb)

(* x * n in double arithmetic, for a small integer n > 0 *)
DoubleMulInt(x, n) ==
  LET p == MulBits(x.m, n, 0)
  IN RoundToEven(p, x.e + Len(p) - Precision, FALSE)

RECURSIVE BitsValue(_)
BitsValue(b) ==
  IF b = << >> THEN 0 ELSE 2 * BitsValue(SubSeq(b, 1, Len(b) - 1)) + b[Len(b)]

(* Math.round of a positive double below 2^30: floor(x + 1/2) *)
DoubleRound(x) ==
  IF x.e < 0 - 1 THEN 0
  ELSE BitsValue(SubSeq(x.m, 1, x.e + 1)) + x.m[x.e + 2]

-----------------------------------------------------------------------------
(* ---- trackCompliance, addComplianceRequirement ---- *)
CountStatus(status) ==
  Cardinality({i \in Ids(complianceRecords) : complianceRecords[i].status = status})

(* total > 0 ? Math.round((compliant / total) * 100) : 0 *)
ComplianceRate(compliant, total) ==
  IF total > 0
  THEN (IF compliant = 0 THEN 0
        ELSE DoubleRound(DoubleMulInt(DoubleDiv(compliant, total), 100)))
  ELSE 0

TrackCompliance ==
  /\ nOps' = nOps + 1
  /\ resp' = [op |-> "trackCompliance",
              total |-> Len(complianceRecords),
              compliant |-> CountStatus("compliant"),
              inProgress |-> CountStatus("in_progress"),
              nonCompliant |-> CountStatus("non_compliant"),
              complianceRate |-> ComplianceRate(CountStatus("compliant"),
                                                Len(complianceRecords))]
  /\ UNCHANGED otherTables
  /\ UNCHANGED <<members, savings, loans, transactions, creditChecks, auditLogs,
                 loanRestructuring, complianceRecords, approvals, now, inflight>>

AddComplianceRequirement ==
  /\ nOps' = nOps + 1
  /\ complianceRecords' = Append(complianceRecords, [status |-> "in_progress"])
  /\ resp' = [op |-> "addComplianceRequirement", id |-> Len(complianceRecords) + 1]
  /\ UNCHANGED otherTables
  /\ UNCHANGED <<members, savings, loans, transactions, creditChecks, auditLogs,
                 loanRestructuring, approvals, now, inflight>>

(* ---- the compliance desk ---- *)
MaxRecords == 40

MaxComplianceOps == 2

InitCompliance ==
  /\ members = InitMembers
  /\ savings = << >>
  /\ loans = << >>
  /\ transactions = << >>
  /\ creditChecks = << >>
  /\ auditLogs = << >>
  /\ loanRestructuring = << >>
  /\ \E c \in 0..MaxRecords : \E n \in 0..(MaxRecords - c) :
       complianceRecords = Repeat([status |-> "compliant"], c)
                           \o Repeat([status |-> "non_compliant"], n)
  /\ approvals = {}
  /\ NoOtherRows
  /\ resp = NoResp
  /\ nOps = 0
  /\ now = StartDay
  /\ inflight = NoCalls

TrackComplianceCall == nOps < MaxComplianceOps /\ TrackCompliance

AddComplianceCall ==
  /\ nOps < MaxComplianceOps
  /\ Len(complianceRecords) < MaxRecords
  /\ AddComplianceRequirement

NextCompliance == TrackComplianceCall \/ AddComplianceCall

SpecCompliance == InitCompliance /\ [][NextCompliance]_vars

-----------------------------------------------------------------------------
(* ---- generateMonthlySummaryReport ---- *)

(* gte(col, periodStart) and lte(col, periodEnd): never true of a NULL date *)
InPeriod(date, periodStart, periodEnd) ==
  ~IsNull(date) /\ periodStart <= date[1] /\ date[1] <= periodEnd

ActiveMemberRows == {i \in Ids(members) : members[i].isActive}

NewMemberRows(periodStart, periodEnd) ==
  {i \in Ids(members) : InPeriod(<<members[i].joinedAt>>, periodStart, periodEnd)}

ActiveSavingsRows == {i \in Ids(savings) : savings[i].isActive}

DisbursedInPeriodRows(periodStart, periodEnd) ==
  {i \in Ids(loans) : InPeriod(loans[i].disbursedAt, periodStart, periodEnd)}

RepaymentRows(periodStart, periodEnd) ==
  {i \in Ids(transactions) :
     /\ transactions[i].transactionType = "loan_repayment"
     /\ InPeriod(<<transactions[i].transactionDate>>, periodStart, periodEnd)}

PortfolioRows == {i \in Ids(loans) : loans[i].status = "disbursed"}

PeriodTransactionRows(periodStart, periodEnd) ==
  {i \in Ids(transactions) :
     InPeriod(<<transactions[i].transactionDate>>, periodStart, periodEnd)}

(* JS `count || 0` *)
CountOrZero(n) == IF n = 0 THEN 0 ELSE n

(* group by transaction_type: one row a type present, in no promised order *)
TransactionsByType(periodStart, periodEnd) ==
  LET rows == PeriodTransactionRows(periodStart, periodEnd)
      Of(type) == {i \in rows : transactions[i].transactionType = type}
  IN {[type |-> transactions[i].transactionType,
       amount |-> OrZero(SqlSum(transactions, "amount", Of(transactions[i].transactionType))),
       count |-> CountOrZero(Cardinality(Of(transactions[i].transactionType)))] : i \in rows}

MonthlySummary(periodStart, periodEnd) ==
  [op |-> "generateMonthlySummaryReport",
   periodStart |-> periodStart, periodEnd |-> periodEnd,
   members |-> [total |-> CountOrZero(Len(members)),
                active |-> CountOrZero(Cardinality(ActiveMemberRows)),
                new |-> CountOrZero(Cardinality(NewMemberRows(periodStart, periodEnd)))],
   savings |-> [totalBalance |-> OrZero(SqlSum(savings, "balance", ActiveSavingsRows))],
   loans |-> [disbursed |-> OrZero(SqlSum(loans, "principalAmount",
                                          DisbursedInPeriodRows(periodStart, periodEnd))),
              repayments |-> OrZero(SqlSum(transactions, "amount",
                                           RepaymentRows(periodStart, periodEnd))),
              outstandingPortfolio |-> OrZero(SqlSum(loans, "balance", PortfolioRows))],
   transactions |-> TransactionsByType(periodStart, periodEnd)]

GenerateMonthlySummaryReport(periodStart, periodEnd) ==
  /\ nOps' = nOps + 1
  /\ resp' = MonthlySummary(periodStart, periodEnd)
  /\ UNCHANGED otherTables
  /\ UNCHANGED <<members, savings, loans, transactions, creditChecks, auditLogs,
                 loanRestructuring, complianceRecords, approvals, now, inflight>>

(* ---- the report desk ---- *)
MaxSummaryRows == 2

MaxSummaryOps == 2

Days == {StartDay - 2, StartDay - 1, StartDay}

RECURSIVE SeqsUpTo(_, _)
(* the sequences over S of length at most n *)
SeqsUpTo(S, n) ==
  IF n = 0 THEN {<< >>}
  ELSE LET shorter == SeqsUpTo(S, n - 1)
       IN shorter \cup {Append(q, x) : q \in shorter, x \in S}

(* member numbers are unique: a row is numbered after its position *)
Numbered(rows) ==
  [i \in 1..Len(rows) |-> [rows[i] EXCEPT !.memberNumber = "M" \o ToString(i),
                                          !.phone = "p" \o ToString(i)]]

SummaryMembers ==
  {Numbered(q) : q \in SeqsUpTo({Member("M", "p", TRUE, StartDay - 2),
                                 Member("M", "p", FALSE, StartDay)}, MaxSummaryRows)}

SummarySavings ==
  SeqsUpTo({Saving(1, 100, TRUE), Saving(1, 100, FALSE), Saving(1, 0, TRUE)}, 1)

SummaryLoans ==
  SeqsUpTo({OldLoan(1, 5000, "disbursed", <<StartDay - 1>>),
            OldLoan(1, 5000, "approved", Null),
            OldLoan(1, 5000, "fully_paid", <<StartDay - 2>>)}, 1)

SummaryTransactions ==
  SeqsUpTo({Txn(1, "loan_repayment", 100, StartDay - 1),
            Txn(1, "deposit", 100, StartDay - 1),
            Txn(1, "loan_repayment", 100, StartDay)}, MaxSummaryRows)

(* every row but a member's refers to member 1, who must then exist *)
InitSummary ==
  /\ members \in SummaryMembers
  /\ savings \in SummarySavings
  /\ loans \in SummaryLoans
  /\ transactions \in SummaryTransactions
  /\ (savings # << >> \/ loans # << >> \/ transactions # << >>) => members # << >>
  /\ creditChecks = << >>
  /\ auditLogs = << >>
  /\ loanRestructuring = << >>
  /\ complianceRecords = << >>
  /\ approvals = {}
  /\ NoOtherRows
  /\ resp = NoResp
  /\ nOps = 0
  /\ now = StartDay
  /\ inflight = NoCalls

MonthlySummaryCall ==
  /\ nOps < MaxSummaryOps
  /\ \E ps \in Days, pe \in Days : GenerateMonthlySummaryReport(ps, pe)

NextSummary == MonthlySummaryCall

SpecSummary == InitSummary /\ [][NextSummary]_vars

-----------------------------------------------------------------------------
(* ---- the export formatter (src/src/lib/downloads.ts) ----
   A JS string is a sequence of characters.  The characters the formatter
   tells apart (comma, double quote, newline, backslash) stand for
   themselves; a run of other characters is one element.  A JS value
   is a record [t, v]; an object is the sequence of its <<key, value>>
   entries in insertion order. *)
Comma == ","

Quote == "\""

Newline == "\n"

JsString(chars) == [t |-> "string", v |-> chars]

JsNumber(n) == [t |-> "number", v |-> n]

JsNull == [t |-> "null", v |-> 0]

JsUndefined == [t |-> "undefined", v |-> 0]

(* String(value) of a string or an integer *)
StringOf(value) ==
  IF value.t = "string" THEN value.v ELSE <<ToString(value.v)>>

GetUndefinedText(row, key) ==
  IF \E i \in 1..Len(row) : row[i][1] = key
  THEN row[CHOOSE i \in 1..Len(row) : row[i][1] = key][2]
  ELSE JsString(<<"undefined">>)

(* row[key]: undefined where the object has no such key *)
Get(row, key) ==
  IF \E i \in 1..Len(row) : row[i][1] = key
  THEN row[CHOOSE i \in 1..Len(row) : row[i][1] = key][2]
  ELSE JsUndefined

ObjectKeys(row) == [i \in 1..Len(row) |-> row[i][1]]

Includes(str, ch) == \E i \in 1..Len(str) : str[i] = ch

RECURSIVE DoubleQuotes(_)
(* stringValue.replace(/"/g, '""') *)
DoubleQuotes(str) ==
  IF str = << >> THEN << >>
  ELSE (IF Head(str) = Quote THEN <<Quote, Quote>> ELSE <<Head(str)>>)
       \o DoubleQuotes(Tail(str))

RECURSIVE Join(_, _)
(* Array.prototype.join *)
Join(strs, sep) ==
  IF Len(strs) = 0 THEN << >>
  ELSE IF Len(strs) = 1 THEN strs[1]
  ELSE strs[1] \o sep \o Join(Tail(strs), sep)

CsvFieldAlwaysQuoted(value) == <<Quote>> \o StringOf(value) \o <<Quote>>

(* one cell of toCSV: null and undefined are empty, a value holding a
   comma, a quote or a newline is wrapped in quotes with its quotes doubled *)
CsvField(value) ==
  LET stringValue == IF value.t \in {"null", "undefined"} THEN << >> ELSE StringOf(value)
      escaped == DoubleQuotes(stringValue)
  IN IF Includes(stringValue, Comma) \/ Includes(stringValue, Quote)
        \/ Includes(stringValue, Newline)
     THEN <<Quote>> \o escaped \o <<Quote>>
     ELSE escaped

(* ---- JSON.stringify(data, null, 2) of an array of flat objects ---- *)
RECURSIVE JsonEscape(_)
JsonEscape(str) ==
  IF str = << >> THEN << >>
  ELSE (CASE Head(str) = Quote -> <<"\\", Quote>>
          [] Head(str) = "\\" -> <<"\\", "\\">>
          [] Head(str) = Newline -> <<"\\", "n">>
          [] OTHER -> <<Head(str)>>)
       \o JsonEscape(Tail(str))

JsonValue(value) ==
  CASE value.t = "string" -> <<Quote>> \o JsonEscape(value.v) \o <<Quote>>
    [] value.t = "number" -> <<ToString(value.v)>>
    [] OTHER -> <<"null">>

(* a property whose value is undefined is left out *)
JsonEntries(row) == SelectSeq(row, LAMBDA e : e[2].t # "undefined")

JsonObject(row) ==
  LET entries == JsonEntries(row)
      line(e) == <<"    ", Quote>> \o JsonEscape(e[1]) \o <<Quote, ": ">> \o JsonValue(e[2])
  IN IF Len(entries) = 0 THEN <<"  {}">>
     ELSE <<"  {", Newline>>
          \o Join([i \in 1..Len(entries) |-> line(entries[i])], <<Comma, Newline>>)
          \o <<Newline, "  }">>

JsonStringifyCompact(data) ==
  <<"[">> \o Join([r \in 1..Len(data) |-> JsonObject(data[r])], <<Comma>>) \o <<"]">>

JsonStringify(data) ==
  IF Len(data) = 0 THEN <<"[]">>
  ELSE <<"[", Newline>>
       \o Join([r \in 1..Len(data) |-> JsonObject(data[r])], <<Comma, Newline>>)
       \o <<Newline, "]">>

(* ---- formatDate and formatCurrency ---- *)
Pad2(n) == IF n < 10 THEN "0" \o ToString(n) ELSE ToString(n)

(* the UTC calendar date of a day counted from 1970-01-01 *)
Civil(day) ==
  LET z == day + 719468
      era == z \div 146097
      doe == z - era * 146097
      yoe == (doe - doe \div 1460 + doe \div 36524 - doe \div 146096) \div 365
      doy == doe - (365 * yoe + yoe \div 4 - yoe \div 100)
      mp == (5 * doy + 2) \div 153
      d == doy - (153 * mp + 2) \div 5 + 1
      m == IF mp < 10 THEN mp + 3 ELSE mp - 9
  IN [y |-> yoe + era * 400 + (IF m <= 2 THEN 1 ELSE 0), m |-> m, d |-> d]

(* toISOString().split("T")[0] *)
IsoDate(day) ==
  LET c == Civil(day) IN ToString(c.y) \o "-" \o Pad2(c.m) \o "-" \o Pad2(c.d)

(* new Date(year, month, 1) of the month `day` lies in *)
MonthStart(day) == day - (Civil(day).d - 1)

(* formatDate of a nullable date *)
FormatDate(date) == IF IsNull(date) THEN << >> ELSE <<IsoDate(date[1])>>

(* amount.toFixed(2): the nearest cent; exact unless the amount lies halfway
   between two cents without being a binary fraction *)
ToFixed2(a) ==
  LET cents == (2 * Abs(a[1]) * 100 + a[2]) \div (2 * a[2])
      digits == ToString(cents \div 100) \o "." \o Pad2(cents % 100)
  IN IF a[1] < 0 /\ cents > 0 THEN "-" \o digits ELSE digits

(* formatCurrency of a nullable amount *)
FormatCurrency(amount) == IF IsNull(amount) THEN <<"0.00">> ELSE <<ToFixed2(amount)>>

NoHeaders == [given |-> FALSE, keys |-> << >>]

Headers(keys) == [given |-> TRUE, keys |-> keys]

ToCSVKeepsHeader(data, headers) ==
  IF headers.given THEN Join(headers.keys, <<Comma>>)
  ELSE IF Len(data) = 0 THEN << >> ELSE Join(ObjectKeys(data[1]), <<Comma>>)

ToCSV(data, headers) ==
  IF Len(data) = 0 THEN << >>
  ELSE LET keys == IF headers.given THEN headers.keys ELSE ObjectKeys(data[1])
           values(row) == [i \in 1..Len(keys) |-> CsvField(Get(row, keys[i]))]
           csvRows == <<Join(keys, <<Comma>>)>>
                      \o [r \in 1..Len(data) |-> Join(values(data[r]), <<Comma>>)]
       IN Join(csvRows, <<Newline>>)

(* ---- the row-producing functions of a download ----
   A download row carries the columns whose source columns the datastore of
   this model carries.  An `orderBy(desc(col))` leaves the order of rows with
   equal `col` open, so a fetch is the set of row sequences it can return;
   where the model does not carry `col`, every order is possible. *)
Entry(key, value) == << <<key>>, value >>

(* a column value as a JS string *)
Str(s) == JsString(IF s = "" THEN << >> ELSE <<s>>)

(* `column || ""` of a nullable text column *)
StrOrEmpty(s) == IF s = "NULL" THEN Str("") ELSE Str(s)

RECURSIVE Perms(_)
Perms(S) ==
  IF S = {} THEN {<< >>}
  ELSE UNION {{<<x>> \o q : q \in Perms(S \ {x})} : x \in S}

(* the orders of `ids` that descend by key; NULL sorts last *)
Orders(ids, key) ==
  {ord \in Perms(ids) :
     \A i \in 1..Len(ord) : \A j \in 1..Len(ord) : i < j => key[ord[i]] >= key[ord[j]]}

DateKey(date) == IF IsNull(date) THEN 0 - 1 ELSE date[1]

NoKey(table) == [i \in Ids(table) |-> 0]

(* options.memberId is given: neither undefined nor 0 *)
HasMember(options) == ~IsNull(options.memberId) /\ options.memberId # <<0>>

ForMember(options, table) ==
  {i \in Ids(table) : HasMember(options) => <<table[i].memberId>> = options.memberId}

(* options.status is given and is one of the values the function accepts *)
StatusIn(options, accepted) ==
  /\ ~IsNull(options.status) /\ options.status # <<"">>
  /\ options.status[1] \in accepted

(* eq(table.status, options.status), pushed when the status is accepted *)
WithStatus(options, table, accepted) ==
  {i \in Ids(table) : StatusIn(options, accepted) => table[i].status = options.status[1]}

(* eq(table.isActive, true) for "active", eq(table.isActive, false) for "inactive" *)
WithActive(options, table) ==
  {i \in Ids(table) : /\ options.status = <<"active">> => table[i].isActive
                      /\ options.status = <<"inactive">> => ~table[i].isActive}

(* memberMap.get(id)?.memberNumber || "" *)
MemberNumberOf(id) ==
  IF id \in Ids(members) THEN Str(members[id].memberNumber) ELSE Str("")

(* `${firstName} ${lastName}` of the member, "" without one *)
MemberNameOf(id) ==
  IF id \in Ids(members)
  THEN JsString(<<members[id].firstName, " ", members[id].lastName>>)
  ELSE Str("")

FetchMembers(options) ==
  LET row(i) ==
        <<Entry("Member Number", Str(members[i].memberNumber)),
          Entry("First Name", Str(members[i].firstName)),
          Entry("Last Name", Str(members[i].lastName)),
          Entry("Email", StrOrEmpty(members[i].email)),
          Entry("Phone", StrOrEmpty(members[i].phone)),
          Entry("Joined Date", JsString(FormatDate(<<members[i].joinedAt>>))),
          Entry("Status", Str(IF members[i].isActive THEN "Active" ELSE "Inactive")),
          Entry("2FA Enabled", Str(IF members[i].twoFactorEnabled THEN "Yes" ELSE "No")),
          Entry("Last Login", JsString(FormatDate(members[i].lastLoginAt)))>>
  IN {[k \in 1..Len(ord) |-> row(ord[k])] :
        ord \in Orders(WithActive(options, members),
                       [i \in Ids(members) |-> members[i].joinedAt])}

FetchSavings(options) ==
  LET row(i) ==
        <<Entry("Member Number", MemberNumberOf(savings[i].memberId)),
          Entry("Member Name", MemberNameOf(savings[i].memberId)),
          Entry("Balance", JsString(FormatCurrency(savings[i].balance))),
          Entry("Status", Str(IF savings[i].isActive THEN "Active" ELSE "Closed"))>>
  IN {[k \in 1..Len(ord) |-> row(ord[k])] :
        ord \in Orders(ForMember(options, savings) \cap WithActive(options, savings),
                       NoKey(savings))}

LoanColumns(l) ==
  <<Entry("Member Number", MemberNumberOf(l.memberId)),
    Entry("Member Name", MemberNameOf(l.memberId)),
    Entry("Principal Amount", JsString(FormatCurrency(l.principalAmount))),
    Entry("Interest Amount", JsString(FormatCurrency(l.interestAmount))),
    Entry("Total Amount", JsString(FormatCurrency(l.totalAmount))),
    Entry("Paid Amount", JsString(FormatCurrency(l.paidAmount))),
    Entry("Balance", JsString(FormatCurrency(l.balance))),
    Entry("Term (Months)", JsNumber(l.termMonths))>>

FetchLoans(options) ==
  LET row(i) ==
        LoanColumns(loans[i])
        \o <<Entry("Installment Amount", JsString(FormatCurrency(loans[i].installmentAmount))),
             Entry("Status", Str(loans[i].status)),
             Entry("Disbursed Date", JsString(FormatDate(loans[i].disbursedAt))),
             Entry("Due Date", JsString(FormatDate(loans[i].dueDate)))>>
  IN {[k \in 1..Len(ord) |-> row(ord[k])] :
        ord \in Orders(ForMember(options, loans)
                         \cap WithStatus(options, loans,
                                         {"pending", "approved", "disbursed", "fully_paid",
                                          "defaulted", "written_off"}),
                       NoKey(loans))}

FetchTransactions(options) ==
  LET row(i) ==
        <<Entry("Transaction ID", JsNumber(i)),
          Entry("Member Number", MemberNumberOf(transactions[i].memberId)),
          Entry("Member Name", MemberNameOf(transactions[i].memberId)),
          Entry("Transaction Type", Str(transactions[i].transactionType)),
          Entry("Amount", JsString(FormatCurrency(transactions[i].amount))),
          Entry("Transaction Date", JsString(FormatDate(<<transactions[i].transactionDate>>)))>>
  IN {[k \in 1..Len(ord) |-> row(ord[k])] :
        ord \in Orders(ForMember(options, transactions)
                         \cap {i \in Ids(transactions) :
                                 (~IsNull(options.status) /\ options.status # <<"">>)
                                 => transactions[i].transactionType = options.status[1]},
                       [i \in Ids(transactions) |-> transactions[i].transactionDate])}

FetchPenalties(options) ==
  LET row(i) ==
        <<Entry("Penalty ID", JsNumber(i)),
          Entry("Member Number", MemberNumberOf(penalties[i].memberId)),
          Entry("Member Name", MemberNameOf(penalties[i].memberId)),
          Entry("Penalty Type", Str(penalties[i].penaltyType)),
          Entry("Amount", JsString(FormatCurrency(penalties[i].amount))),
          Entry("Status", Str(penalties[i].status)),
          Entry("Applied Date", JsString(FormatDate(penalties[i].appliedAt)))>>
  IN {[k \in 1..Len(ord) |-> row(ord[k])] :
        ord \in Orders(ForMember(options, penalties)
                         \cap WithStatus(options, penalties, {"pending", "waived", "paid"}),
                       [i \in Ids(penalties) |-> DateKey(penalties[i].appliedAt)])}

FetchCreditChecks(options) ==
  LET row(i) ==
        <<Entry("Check ID", JsNumber(i)),
          Entry("Member Number", MemberNumberOf(creditChecks[i].memberId)),
          Entry("Member Name", MemberNameOf(creditChecks[i].memberId)),
          Entry("Credit Score", JsNumber(creditChecks[i].creditScore)),
          Entry("Income Level", Str("N/A")),
          Entry("Existing Loans",
                IF RIsZero(creditChecks[i].existingLoans) THEN Str("N/A")
                ELSE JsString(FormatCurrency(creditChecks[i].existingLoans))),
          Entry("Status", Str(creditChecks[i].status))>>
  IN {[k \in 1..Len(ord) |-> row(ord[k])] :
        ord \in Orders(ForMember(options, creditChecks)
                         \cap WithStatus(options, creditChecks, {"pending", "passed", "failed"}),
                       NoKey(creditChecks))}

FetchGuarantors(options) ==
  LET row(i) ==
        <<Entry("Guarantor ID", JsNumber(i)),
          Entry("Guarantor Number", MemberNumberOf(guarantors[i].memberId)),
          Entry("Guarantor Name", MemberNameOf(guarantors[i].memberId)),
          Entry("Guarantee Amount", JsString(FormatCurrency(Null))),
          Entry("Status", Str(guarantors[i].status)),
          Entry("Accepted Date", JsString(FormatDate(Null))),
          Entry("Created Date", JsString(FormatDate(guarantors[i].createdAt)))>>
  IN {[k \in 1..Len(ord) |-> row(ord[k])] :
        ord \in Orders(Ids(guarantors),
                       [i \in Ids(guarantors) |-> DateKey(guarantors[i].createdAt)])}

FetchReminders(options) ==
  LET id(i) == reminders[i].memberId
      row(i) ==
        <<Entry("Reminder ID", JsNumber(i)),
          Entry("Member Number",
                IF IsNull(id(i)) \/ id(i) = <<0>> THEN Str("N/A")
                ELSE MemberNumberOf(id(i)[1])),
          Entry("Member Name",
                IF IsNull(id(i)) \/ id(i)[1] \notin Ids(members) THEN Str("N/A")
                ELSE MemberNameOf(id(i)[1])),
          Entry("Reminder Type", Str(reminders[i].reminderType)),
          Entry("Channel", Str(reminders[i].channel)),
          Entry("Scheduled For", JsString(FormatDate(reminders[i].scheduledFor))),
          Entry("Sent Date", JsString(FormatDate(Null))),
          Entry("Status", Str(reminders[i].status))>>
      mine == {i \in Ids(reminders) : HasMember(options) => id(i) = options.memberId}
              \cap WithStatus(options, reminders, {"pending", "sent", "failed"})
  IN {[k \in 1..Len(ord) |-> row(ord[k])] :
        ord \in Orders(mine, [i \in Ids(reminders) |-> DateKey(reminders[i].scheduledFor)])}

FetchAuditLogs(options) ==
  LET user(i) == auditLogs[i].userId
      row(i) ==
        <<Entry("Log ID", JsNumber(i)),
          Entry("User Number",
                IF IsNull(user(i)) \/ user(i) = <<0>> THEN Str("System")
                ELSE MemberNumberOf(user(i)[1])),
          Entry("User Name",
                IF IsNull(user(i)) \/ user(i)[1] \notin Ids(members) THEN Str("System")
                ELSE MemberNameOf(user(i)[1])),
          Entry("Action", Str(auditLogs[i].action)),
          Entry("Entity Type", Str(auditLogs[i].entityType)),
          Entry("Entity ID",
                IF IsNull(auditLogs[i].entityId) \/ auditLogs[i].entityId = <<0>>
                THEN Str("") ELSE JsNumber(auditLogs[i].entityId[1])),
          Entry("Details", Str(""))>>
  IN {[k \in 1..Len(ord) |-> row(ord[k])] :
        ord \in Orders(Ids(auditLogs), NoKey(auditLogs))}

FetchCompliance(options) ==
  LET row(i) ==
        <<Entry("Record ID", JsNumber(i)),
          Entry("Status", Str(complianceRecords[i].status))>>
  IN {[k \in 1..Len(ord) |-> row(ord[k])] :
        ord \in Orders(WithStatus(options, complianceRecords,
                                  {"compliant", "non_compliant", "pending_review"}),
                       NoKey(complianceRecords))}

FetchCampaigns(options) ==
  LET row(i) ==
        <<Entry("Campaign ID", JsNumber(i)),
          Entry("Name", Str(campaigns[i].name)),
          Entry("Type", Str(campaigns[i].type)),
          Entry("Target Amount", JsString(FormatCurrency(campaigns[i].targetAmount))),
          Entry("Raised Amount",
                IF Truthy(campaigns[i].targetAmount)
                THEN JsString(FormatCurrency(RInt(0))) ELSE Str("N/A")),
          Entry("Start Date", JsString(FormatDate(campaigns[i].startDate))),
          Entry("End Date", JsString(FormatDate(campaigns[i].endDate))),
          Entry("Status", Str(campaigns[i].status))>>
  IN {[k \in 1..Len(ord) |-> row(ord[k])] :
        ord \in Orders(WithStatus(options, campaigns, {"active", "completed", "planned"}),
                       [i \in Ids(campaigns) |-> DateKey(campaigns[i].startDate)])}

FetchPartners(options) ==
  LET row(i) ==
        <<Entry("Partner ID", JsNumber(i)),
          Entry("Name", Str(partners[i].name)),
          Entry("Type", Str(partners[i].type)),
          Entry("Investment Amount", Str("N/A")),
          Entry("Return Rate", Str("N/A")),
          Entry("Start Date", JsString(FormatDate(partners[i].agreementStart))),
          Entry("End Date", JsString(FormatDate(partners[i].agreementEnd))),
          Entry("Status", Str(partners[i].status)),
          Entry("Notes", Str(""))>>
  IN {[k \in 1..Len(ord) |-> row(ord[k])] :
        ord \in Orders(WithStatus(options, partners, {"active", "inactive", "pending"}),
                       NoKey(partners))}

(* no dates are given: the period runs from the first of the month to now *)
FetchMonthlySummary(options) ==
  LET startDate == MonthStart(now)
      endDate == now
  IN {<< <<Entry("Report Type", Str("Monthly Summary")),
           Entry("Period Start", JsString(FormatDate(<<startDate>>))),
           Entry("Period End", JsString(FormatDate(<<endDate>>))),
           Entry("Total Members", JsNumber(CountOrZero(Len(members)))),
           Entry("Active Members", JsNumber(CountOrZero(Cardinality(ActiveMemberRows)))),
           Entry("New Members",
                 JsNumber(CountOrZero(Cardinality(NewMemberRows(startDate, endDate))))),
           Entry("Total Savings",
                 JsString(FormatCurrency(SqlSum(savings, "balance", ActiveSavingsRows)))),
           Entry("Loans Disbursed",
                 JsString(FormatCurrency(SqlSum(loans, "principalAmount",
                                                DisbursedInPeriodRows(startDate, endDate))))),
           Entry("Loan Repayments",
                 JsString(FormatCurrency(SqlSum(transactions, "amount",
                                                RepaymentRows(startDate, endDate))))),
           Entry("Loan Portfolio",
                 JsString(FormatCurrency(SqlSum(loans, "balance", PortfolioRows)))),
           Entry("Generated Date", Str(IsoDate(now)))>> >>}

FetchLoanPortfolio(options) ==
  LET row(i) ==
        LoanColumns(loans[i])
        \o <<Entry("Installment", JsString(FormatCurrency(loans[i].installmentAmount))),
             Entry("Disbursed Date", JsString(FormatDate(loans[i].disbursedAt))),
             Entry("Due Date", JsString(FormatDate(loans[i].dueDate))),
             Entry("Days Overdue",
                   JsNumber(IF IsNull(loans[i].dueDate) THEN 0 ELSE now - loans[i].dueDate[1]))>>
  IN {[k \in 1..Len(ord) |-> row(ord[k])] :
        ord \in Orders(PortfolioRows, [i \in Ids(loans) |-> DateKey(loans[i].disbursedAt)])}

(* the rows of a statement, for a member that exists *)
StatementRows(memberId) ==
  LET member == members[memberId]
      mine(table) == {i \in Ids(table) : table[i].memberId = memberId}
      savingsBalance == RSum([i \in Ids(savings) |-> savings[i].balance], mine(savings))
      loansBalance == RSum([i \in Ids(loans) |-> loans[i].balance], mine(loans))
      inPeriod == {i \in mine(transactions) :
                     InPeriod(<<transactions[i].transactionDate>>, member.joinedAt, now)}
      line(i) ==
        <<Entry("Date", JsString(FormatDate(<<transactions[i].transactionDate>>))),
          Entry("Transaction Type", Str(transactions[i].transactionType)),
          Entry("Debit",
                IF transactions[i].transactionType = "loan_disbursement"
                THEN JsString(FormatCurrency(transactions[i].amount)) ELSE Str("")),
          Entry("Credit",
                IF transactions[i].transactionType # "loan_disbursement"
                THEN JsString(FormatCurrency(transactions[i].amount)) ELSE Str("")),
          Entry("Balance", Str(""))>>
      head ==
        << <<Entry("Statement Type", Str("Member Account Statement")),
             Entry("Member Number", Str(member.memberNumber)),
             Entry("Name", JsString(<<member.firstName, " ", member.lastName>>)),
             Entry("Email", StrOrEmpty(member.email)),
             Entry("Phone", StrOrEmpty(member.phone)),
             Entry("Statement Period",
                   JsString(<<IsoDate(member.joinedAt), " to ", IsoDate(now)>>)),
             Entry("Generated Date", Str(IsoDate(now)))>>,
           <<Entry("Statement Type", Str("Account Summary")),
             Entry("Total Savings", JsString(FormatCurrency(savingsBalance))),
             Entry("Total Loans Outstanding", JsString(FormatCurrency(loansBalance))),
             Entry("Net Position",
                   JsString(FormatCurrency(RSub(savingsBalance, loansBalance))))>> >>
  IN {head \o [k \in 1..Len(ord) |-> line(ord[k])] :
        ord \in Orders(inPeriod, [i \in Ids(transactions) |-> transactions[i].transactionDate])}

(* ---- generateDownload ---- *)
Fetched(rowSeqs) == {[ok |-> TRUE, rows |-> r, error |-> "none"] : r \in rowSeqs}

Thrown(message) == {[ok |-> FALSE, rows |-> << >>, error |-> message]}

(* the switch on options.type *)
FetchOutcomes(options) ==
  CASE options.type = "members" -> Fetched(FetchMembers(options))
    [] options.type = "savings" -> Fetched(FetchSavings(options))
    [] options.type = "loans" -> Fetched(FetchLoans(options))
    [] options.type = "transactions" -> Fetched(FetchTransactions(options))
    [] options.type = "penalties" -> Fetched(FetchPenalties(options))
    [] options.type = "credit_checks" -> Fetched(FetchCreditChecks(options))
    [] options.type = "guarantors" -> Fetched(FetchGuarantors(options))
    [] options.type = "reminders" -> Fetched(FetchReminders(options))
    [] options.type = "audit_logs" -> Fetched(FetchAuditLogs(options))
    [] options.type = "compliance" -> Fetched(FetchCompliance(options))
    [] options.type = "campaigns" -> Fetched(FetchCampaigns(options))
    [] options.type = "partners" -> Fetched(FetchPartners(options))
    [] options.type = "monthly_summary" -> Fetched(FetchMonthlySummary(options))
    [] options.type = "loan Portfolio" -> Fetched(FetchLoanPortfolio(options))
    [] options.type = "member_statement" ->
         IF ~HasMember(options)
         THEN Thrown("Member ID is required for member statement")
         ELSE IF ~MemberExists(options.memberId[1]) THEN Thrown("Member not found")
         ELSE Fetched(StatementRows(options.memberId[1]))
    [] OTHER -> Thrown("Unknown download type")

DownloadFormats == {"csv", "json", "excel"}

Extension(format) ==
  CASE format = "csv" -> ".csv" [] format = "json" -> ".json" [] format = "excel" -> ".xls"

ContentType(format) ==
  CASE format = "csv" -> "text/csv"
    [] format = "json" -> "application/json"
    [] format = "excel" -> "application/vnd.ms-excel"

CsvBody(data) == ToCSV(data, NoHeaders)

JsonBody(data) == JsonStringify(data)

ExcelBody(data) == JsonStringify(data)

(* `${options.type}_${timestamp}.ext` *)
Filename(type, format) == <<type, "_", IsoDate(now), Extension(format)>>

(* the switch on options.format, reached once the rows are fetched *)
Formatted(options, rows) ==
  IF options.format \notin DownloadFormats
  THEN [ok |-> FALSE, error |-> "Unknown format", rows |-> rows, data |-> << >>,
        filename |-> << >>, contentType |-> "none"]
  ELSE [ok |-> TRUE, error |-> "none", rows |-> rows,
        data |-> CASE options.format = "csv" -> CsvBody(rows)
                   [] options.format = "json" -> JsonBody(rows)
                   [] options.format = "excel" -> ExcelBody(rows),
        filename |-> Filename(options.type, options.format),
        contentType |-> ContentType(options.format)]

(* what generateDownload(options) can return or throw *)
GenerateDownload(options) ==
  {IF f.ok THEN Formatted(options, f.rows)
   ELSE [ok |-> FALSE, error |-> f.error, rows |-> << >>, data |-> << >>,
         filename |-> << >>, contentType |-> "none"] : f \in FetchOutcomes(options)}

(* ---- GET and POST /api/downloads ----
   An optional request field is Null or the wrapped value. *)
ValidTypes ==
  {"members", "savings", "loans", "transactions", "penalties", "credit_checks",
   "guarantors", "reminders", "audit_logs", "compliance", "campaigns", "partners",
   "monthly_summary", "loan Portfolio", "member_statement"}

(* !field of an optional text field, and of an optional number *)
Falsy(field) == IsNull(field) \/ field = <<"">>

FalsyNumber(field) == IsNull(field) \/ field = <<0>>

DownloadResp(op, type, format, memberId, filter, status, result) ==
  [op |-> op, type |-> type, format |-> format, memberId |-> memberId,
   filter |-> filter, status |-> status, error |-> result.error, rows |-> result.rows,
   body |-> result.data, filename |-> result.filename,
   contentType |-> result.contentType]

Refused(message) ==
  [ok |-> FALSE, error |-> message, rows |-> << >>, data |-> << >>,
   filename |-> << >>, contentType |-> "application/json"]

(* the answer to a generateDownload that returned or threw *)
Answered(op, type, format, memberId, filter, result) ==
  DownloadResp(op, type, format, memberId, filter, IF result.ok THEN 200 ELSE 500, result)

DownloadsGet(type, format, memberId, status) ==
  LET op == "GET /api/downloads"
      fmt == IF Falsy(format) THEN "csv" ELSE format[1]
      options == [type |-> IF Falsy(type) THEN "" ELSE type[1], format |-> fmt,
                  memberId |-> IF FalsyNumber(memberId) THEN Null ELSE memberId,
                  status |-> IF Falsy(status) THEN Null ELSE status]
  IN /\ nOps' = nOps + 1
     /\ IF Falsy(type)
        THEN resp' = DownloadResp(op, type, format, memberId, status, 200, Refused("none"))
        ELSE IF type[1] \notin ValidTypes
        THEN resp' = DownloadResp(op, type, format, memberId, status, 400,
                                  Refused("Invalid download type"))
        ELSE IF fmt \notin DownloadFormats
        THEN resp' = DownloadResp(op, type, format, memberId, status, 400,
                                  Refused("Invalid format"))
        ELSE \E result \in GenerateDownload(options) :
               resp' = Answered(op, type, format, memberId, status, result)
     /\ UNCHANGED otherTables
     /\ UNCHANGED <<members, savings, loans, transactions, creditChecks, auditLogs,
                    loanRestructuring, complianceRecords, approvals, now, inflight>>

DownloadsPost(type, format, memberId, status) ==
  LET op == "POST /api/downloads"
      options == [type |-> IF IsNull(type) THEN "" ELSE type[1],
                  format |-> IF IsNull(format) THEN "csv" ELSE format[1],
                  memberId |-> memberId, status |-> status]
  IN /\ nOps' = nOps + 1
     /\ IF Falsy(type)
        THEN resp' = DownloadResp(op, type, format, memberId, status, 400,
                                  Refused("Download type is required"))
        ELSE \E result \in GenerateDownload(options) :
               resp' = Answered(op, type, format, memberId, status, result)
     /\ UNCHANGED otherTables
     /\ UNCHANGED <<members, savings, loans, transactions, creditChecks, auditLogs,
                    loanRestructuring, complianceRecords, approvals, now, inflight>>

(* ---- the download desk ---- *)
MaxCsvRows == 2

MaxDownloadOps == 1

(* the object with the given keys and values *)
Obj(keys, values) == [i \in 1..Len(keys) |-> <<keys[i], values[i]>>]

CsvValues ==
  {JsString(<< >>), JsString(<<"x">>), JsString(<<"x", Comma>>),
   JsString(<<Quote, "x">>), JsString(<<"x", Newline, "y">>), JsNull}

(* the rows a table is made of, by the keys they share *)
CsvRowSets ==
  { {Obj(<< >>, << >>)},
    {Obj(<< <<"k">> >>, <<v>>) : v \in CsvValues},
    {Obj(<< <<"k">>, <<"m">> >>, vs) :
       vs \in {<<JsString(<<"x">>), JsString(<< >>)>>,
               <<JsString(<<"y">>), JsString(<<"x">>)>>,
               <<JsString(<<"x", Comma>>), JsString(<<Quote, "x">>)>>,
               <<JsNull, JsNumber(7)>>,
               <<JsString(<<"x", Newline, "y">>), JsString(<<"x">>)>>}},
    {Obj(<< <<"a", Comma, "b">> >>, <<v>>) : v \in {JsString(<<"x">>), JsString(<< >>)}},
    {Obj(<< <<"a", Newline>> >>, <<v>>) : v \in {JsString(<<"x">>), JsString(<< >>)}} }

(* the uniform tables of at most MaxCsvRows rows *)
CsvTables == UNION {SeqsUpTo(rows, MaxCsvRows) : rows \in CsvRowSets}

(* no header list, one key, and the keys in another order with one that no
   row has *)
CsvHeaders ==
  {NoHeaders, Headers(<< <<"k">> >>), Headers(<< <<"m">>, <<"k">>, <<"z">> >>)}

ToCSVStep(data, headers) ==
  /\ nOps' = nOps + 1
  /\ resp' = [op |-> "toCSV", data |-> data, headers |-> headers,
              output |-> ToCSV(data, headers)]
  /\ UNCHANGED otherTables
  /\ UNCHANGED <<members, savings, loans, transactions, creditChecks, auditLogs,
                 loanRestructuring, complianceRecords, approvals, now, inflight>>

RequestTypes ==
  {Null, <<"loan_portfolio">>, <<"payslips">>} \cup {<<t>> : t \in ValidTypes}

RequestFormats == {Null, <<"csv">>, <<"json">>, <<"excel">>, <<"pdf">>}

(* a member is named where the type's rows depend on it *)
RequestMembers(type) ==
  IF type \in {<<"member_statement">>, <<"savings">>} THEN {Null, <<1>>, <<3>>} ELSE {Null}

GuarantorRow(loanId, memberId) ==
  [loanId |-> loanId, memberId |-> memberId, status |-> "pending", createdAt |-> <<now>>]

PenaltyRow(memberId, loanId, amount) ==
  [memberId |-> memberId, loanId |-> loanId, penaltyType |-> "late_payment",
   amount |-> amount, status |-> "pending", appliedAt |-> <<now>>]

ReminderRow(memberId, loanId, reminderType, channel, scheduledFor) ==
  [memberId |-> memberId, loanId |-> loanId, reminderType |-> reminderType,
   channel |-> channel, scheduledFor |-> scheduledFor, status |-> "pending"]

CampaignRow(name, type, targetAmount, endDate) ==
  [name |-> name, type |-> type, targetAmount |-> targetAmount, startDate |-> <<now>>,
   endDate |-> endDate, status |-> "active"]

PartnerRow(name, type, agreementEnd) ==
  [name |-> name, type |-> type, agreementStart |-> <<now>>,
   agreementEnd |-> agreementEnd, status |-> "active"]

(* an empty datastore, or one with rows in every table but partners *)
InitDownloads ==
  /\ \/ /\ members = << >>
        /\ savings = << >>
        /\ loans = << >>
        /\ transactions = << >>
        /\ creditChecks = << >>
        /\ auditLogs = << >>
        /\ complianceRecords = << >>
        /\ guarantors = << >>
        /\ penalties = << >>
        /\ reminders = << >>
        /\ campaigns = << >>
     \/ /\ members = <<Member("M1", "p1", TRUE, StartDay - 5),
                       Member("M2", "p2", FALSE, StartDay - 5)>>
        /\ savings = <<Saving(1, 100, TRUE)>>
        /\ loans = <<OldLoan(1, 5000, "disbursed", <<StartDay - 2>>),
                     OldLoan(2, 300, "approved", Null)>>
        /\ transactions = <<Txn(1, "deposit", 100, StartDay - 1),
                            Txn(1, "loan_disbursement", 5000, StartDay - 1)>>
        /\ creditChecks = <<[memberId |-> 1, creditScore |-> 80,
                             existingLoans |-> RInt(0), latePayments |-> 0,
                             status |-> "passed"]>>
        /\ auditLogs = <<AuditRow(Null, "restructure_approved", "loan", <<1>>)>>
        /\ complianceRecords = <<[status |-> "compliant"]>>
        /\ guarantors = <<[loanId |-> 1, memberId |-> 2, status |-> "pending",
                           createdAt |-> <<StartDay - 1>>]>>
        /\ penalties = <<[memberId |-> 1, loanId |-> <<1>>, penaltyType |-> "late_payment",
                          amount |-> RInt(8), status |-> "pending",
                          appliedAt |-> <<StartDay - 1>>]>>
        /\ reminders = <<[memberId |-> Null, loanId |-> Null, reminderType |-> "general",
                          channel |-> "sms", scheduledFor |-> <<StartDay - 1>>,
                          status |-> "pending"]>>
        /\ campaigns = <<[name |-> "Drive", type |-> "savings", targetAmount |-> Null,
                          startDate |-> <<StartDay - 1>>, endDate |-> <<StartDay + 30>>,
                          status |-> "active"]>>
  /\ partners = << >>
  /\ resources = << >>
  /\ backups = << >>
  /\ settings = << >>
  /\ reports = << >>
  /\ loanRestructuring = << >>
  /\ approvals = {}
  /\ resp = NoResp
  /\ nOps = 0
  /\ now = StartDay
  /\ inflight = NoCalls

ToCSVCall ==
  /\ nOps < MaxDownloadOps
  /\ \E data \in CsvTables, headers \in CsvHeaders : ToCSVStep(data, headers)

DownloadsGetCall ==
  /\ nOps < MaxDownloadOps
  /\ \E type \in RequestTypes, format \in RequestFormats :
       \E memberId \in RequestMembers(type) : DownloadsGet(type, format, memberId, Null)

DownloadsPostCall ==
  /\ nOps < MaxDownloadOps
  /\ \E type \in RequestTypes, format \in RequestFormats :
       \E memberId \in RequestMembers(type) : DownloadsPost(type, format, memberId, Null)

NextDownloads == ToCSVCall \/ DownloadsGetCall \/ DownloadsPostCall

SpecDownloads == InitDownloads /\ [][NextDownloads]_vars

-----------------------------------------------------------------------------
(* ---- generateLoanPortfolioReport ---- *)

(* orderBy(desc(loans.balance)): loans of equal balance come in any order *)
OrdersUnsorted(ids) == Perms(ids)

(* orderBy(desc(loans.balance)) *)
OrdersByBalance(ids) ==
  {ord \in Perms(ids) :
     \A i \in 1..Len(ord) : \A j \in 1..Len(ord) :
        i < j => RLe(loans[ord[j]].balance, loans[ord[i]].balance)}

(* group by status: one row a status present *)
PortfolioSummary ==
  LET Of(status) == {i \in Ids(loans) : loans[i].status = status}
  IN {[status |-> loans[i].status,
       count |-> CountOrZero(Cardinality(Of(loans[i].status))),
       totalPrincipal |-> OrZero(SqlSum(loans, "principalAmount", Of(loans[i].status))),
       totalOutstanding |-> OrZero(SqlSum(loans, "balance", Of(loans[i].status)))] :
        i \in Ids(loans)}

(* a row of loans left-joined to members: the member's columns are null
   where no member has the id *)
PortfolioLoan(i) ==
  [id |-> i, memberId |-> loans[i].memberId,
   firstName |-> IF MemberExists(loans[i].memberId)
                 THEN members[loans[i].memberId].firstName ELSE "NULL",
   lastName |-> IF MemberExists(loans[i].memberId)
                THEN members[loans[i].memberId].lastName ELSE "NULL",
   memberNumber |-> IF MemberExists(loans[i].memberId)
                    THEN members[loans[i].memberId].memberNumber ELSE "NULL",
   principalAmount |-> loans[i].principalAmount, totalAmount |-> loans[i].totalAmount,
   paidAmount |-> loans[i].paidAmount, balance |-> loans[i].balance,
   status |-> loans[i].status, interestRate |-> loans[i].interestRate,
   dueDate |-> loans[i].dueDate, disbursedAt |-> loans[i].disbursedAt]

(* what generateLoanPortfolioReport() can return *)
LoanPortfolioReports ==
  {[loans |-> [k \in 1..Len(ord) |-> PortfolioLoan(ord[k])], summary |-> PortfolioSummary] :
     ord \in OrdersByBalance(PortfolioRows)}

(* ---- generateMemberStatement ---- *)

(* select from members where id = memberId *)
SelectMemberUnfiltered(memberId) == Ids(members)

SelectMember(memberId) == {i \in Ids(members) : i = memberId}

(* what generateMemberStatement returns for the member row it read *)
MemberStatements(id, periodStart, periodEnd) ==
  LET mine == {i \in Ids(transactions) :
                 /\ transactions[i].memberId = id
                 /\ InPeriod(<<transactions[i].transactionDate>>, periodStart, periodEnd)}
      dates == [i \in Ids(transactions) |-> transactions[i].transactionDate]
  IN {[member |-> [id |-> id,
                   name |-> <<members[id].firstName, " ", members[id].lastName>>,
                   memberNumber |-> members[id].memberNumber],
       savings |-> balance,
       transactions |-> [k \in 1..Len(ord) |-> transactions[ord[k]]],
       loans |-> {i \in Ids(loans) : loans[i].memberId = id},
       period |-> [start |-> periodStart, end |-> periodEnd]] :
        balance \in FirstActiveSavingsBalance(id), ord \in Orders(mine, dates)}

(* the outcomes of generateMemberStatement: `queries` are the tables read,
   in the order of the reads *)
GenerateMemberStatement(memberId, periodStart, periodEnd) ==
  IF SelectMember(memberId) = {}
  THEN {[ok |-> FALSE, error |-> "Member not found", queries |-> <<"members">>,
         data |-> Null]}
  ELSE {[ok |-> TRUE, error |-> "none",
         queries |-> <<"members", "savings", "transactions", "loans">>, data |-> d] :
          d \in UNION {MemberStatements(id, periodStart, periodEnd) :
                         id \in SelectMember(memberId)}}

(* ---- generateEndOfMonthReport ---- *)

(* the day, counted from 1970-01-01, of a calendar date *)
DayOf(y, m, d) ==
  LET yy == IF m <= 2 THEN y - 1 ELSE y
      era == yy \div 400
      yoe == yy - era * 400
      doy == (153 * (IF m > 2 THEN m - 3 ELSE m + 9) + 2) \div 5 + d - 1
      doe == yoe * 365 + yoe \div 4 - yoe \div 100 + doy
  IN era * 146097 + doe - 719468

(* new Date(year, month - 1, 1) and new Date(year, month, 0, 23, 59, 59),
   for a month from 1 to 12 *)
MonthFirstDay(year, month) == DayOf(year, month, 1)

MonthLastDay(year, month) ==
  (IF month = 12 THEN DayOf(year + 1, 1, 1) ELSE DayOf(year, month + 1, 1)) - 1

EndOfMonthReports(year, month) ==
  {[reportDate |-> now,
    period |-> [start |-> MonthFirstDay(year, month), end |-> MonthLastDay(year, month)],
    summary |-> MonthlySummary(MonthFirstDay(year, month), MonthLastDay(year, month)),
    portfolio |-> p] : p \in LoanPortfolioReports}

(* ---- saveReport ---- *)
ReportRow(reportType, periodStart, periodEnd, reportData) ==
  [reportType |-> reportType, periodStart |-> periodStart, periodEnd |-> periodEnd,
   reportData |-> reportData, status |-> "completed", generatedAt |-> <<now>>]

SaveReport(reportType, periodStart, periodEnd, reportData) ==
  reports' = Append(reports, ReportRow(reportType, periodStart, periodEnd, reportData))

(* ---- POST /api/reports ----
   A field of the body is Null when absent, the wrapped value otherwise. *)
ReportsResp(body, status, error, queries) ==
  [op |-> "POST /api/reports", reportType |-> body.reportType,
   memberId |-> body.memberId, periodStart |-> body.periodStart,
   periodEnd |-> body.periodEnd, status |-> status, error |-> error,
   queries |-> queries]

(* `periodStart || Date.now()` *)
OrNow(date) == IF IsNull(date) THEN now ELSE date[1]

(* the report is generated: it is saved and answered with 200 *)
ReportsSaved(body, reportTypeStr, queries, reportData) ==
  /\ SaveReport(reportTypeStr, OrNow(body.periodStart), OrNow(body.periodEnd), reportData)
  /\ resp' = ReportsResp(body, 200, "none", queries)

ReportsRefused(body, status, error, queries) ==
  /\ resp' = ReportsResp(body, status, error, queries)
  /\ UNCHANGED reports

ReportsPost(body) ==
  /\ nOps' = nOps + 1
  /\ CASE body.reportType = <<"monthly_summary">> ->
            IF IsNull(body.periodStart) \/ IsNull(body.periodEnd)
            THEN ReportsRefused(body, 400, "periodStart and periodEnd are required", << >>)
            ELSE ReportsSaved(body, "monthly_summary",
                              <<"members", "savings", "loans", "transactions">>,
                              MonthlySummary(body.periodStart[1], body.periodEnd[1]))
       [] body.reportType = <<"loan_portfolio">> ->
            \E data \in LoanPortfolioReports :
               ReportsSaved(body, "loan_portfolio", <<"loans">>, data)
       [] body.reportType = <<"member_statement">> ->
            IF FalsyNumber(body.memberId) \/ IsNull(body.periodStart)
               \/ IsNull(body.periodEnd)
            THEN ReportsRefused(body, 400,
                                "memberId, periodStart, and periodEnd are required", << >>)
            ELSE \E result \in GenerateMemberStatement(body.memberId[1],
                                                       body.periodStart[1],
                                                       body.periodEnd[1]) :
                   IF result.ok
                   THEN ReportsSaved(body, "member_statement", result.queries, result.data)
                   ELSE ReportsRefused(body, 500, result.error, result.queries)
       [] body.reportType = <<"end_of_month">> ->
            IF FalsyNumber(body.year) \/ FalsyNumber(body.month)
            THEN ReportsRefused(body, 400, "year and month are required", << >>)
            ELSE \E data \in EndOfMonthReports(body.year[1], body.month[1]) :
                   ReportsSaved(body, "end_of_month",
                                <<"members", "savings", "loans", "transactions", "loans">>,
                                data)
       [] OTHER -> ReportsRefused(body, 400, "Invalid report type", << >>)
  /\ UNCHANGED <<guarantors, penalties, reminders, campaigns, partners, resources,
                 backups, settings>>
  /\ UNCHANGED <<members, savings, loans, transactions, creditChecks, auditLogs,
                 loanRestructuring, complianceRecords, approvals, now, inflight>>

(* ---- the report requests ---- *)
MaxReportOps == 2

ReportDays == {Null, <<StartDay - 2>>, <<StartDay>>}

ReportBody(reportType, memberId, periodStart, periodEnd, year, month) ==
  [reportType |-> reportType, memberId |-> memberId, periodStart |-> periodStart,
   periodEnd |-> periodEnd, year |-> year, month |-> month]

(* the bodies sent: a field varies where the report type reads it *)
ReportBodies ==
  {ReportBody(<<"monthly_summary">>, Null, ps, pe, Null, Null) :
     ps \in ReportDays, pe \in ReportDays}
  \cup {ReportBody(t, Null, Null, Null, Null, Null) :
          t \in {Null, <<"loan_portfolio">>, <<"weekly">>}}
  \cup {ReportBody(<<"member_statement">>, m, ps, pe, Null, Null) :
          m \in {Null, <<0>>, <<1>>, <<3>>}, ps \in {Null, <<StartDay - 2>>},
          pe \in {Null, <<StartDay>>}}
  \cup {ReportBody(<<"end_of_month">>, Null, Null, Null, y, m) :
          y \in {Null, <<1970>>}, m \in {Null, <<0>>, <<1>>, <<12>>}}

ReportsPostCall ==
  /\ nOps < MaxReportOps
  /\ \E body \in ReportBodies : ReportsPost(body)

NextReports == ReportsPostCall

SpecReports == InitDownloads /\ [][NextReports]_vars

-----------------------------------------------------------------------------
(* ---- the other operations of the service layer ----
   A text argument the caller left out is "NULL", a number or a date left out
   is Null.  `fk` tells whether the datastore enforces its foreign keys: an
   insert that refers to a missing row is refused when it does and accepted
   when it does not. *)
coreTables ==
  <<members, savings, loans, transactions, creditChecks, auditLogs,
    loanRestructuring, complianceRecords, approvals, now, inflight>>

(* the insert's references are accepted *)
Accepted(fk, refersToRows) == ~fk \/ refersToRows

RECURSIVE GuarantorRows(_, _, _)
(* the rows the inserts of requestGuarantors leave: those that are accepted *)
GuarantorRows(loanId, memberIds, fk) ==
  IF memberIds = << >> THEN << >>
  ELSE (IF Accepted(fk, LoanExists(loanId) /\ MemberExists(Head(memberIds)))
        THEN <<GuarantorRow(loanId, Head(memberIds))>> ELSE << >>)
       \o GuarantorRows(loanId, Tail(memberIds), fk)

(* ---- requestGuarantors: memberIds is Null or the wrapped list ---- *)
RequestGuarantors(loanId, memberIds, fk) ==
  LET Resp(outcome, inserted) ==
        [op |-> "requestGuarantors", loanId |-> loanId, memberIds |-> memberIds,
         outcome |-> outcome, inserted |-> inserted]
  IN /\ nOps' = nOps + 1
     /\ IF IsNull(memberIds)
        THEN /\ resp' = Resp("TypeError", 0)
             /\ UNCHANGED guarantors
        ELSE LET rows == GuarantorRows(loanId, memberIds[1], fk)
             IN /\ guarantors' = guarantors \o rows
                /\ resp' = Resp(IF Len(rows) = Len(memberIds[1]) THEN "ok"
                                ELSE "ForeignKeyViolation", Len(rows))
     /\ UNCHANGED coreTables
     /\ UNCHANGED <<penalties, reminders, campaigns, partners, resources, backups,
                    settings, reports>>

(* ---- schedulePaymentReminder ---- *)
SchedulePaymentReminder(memberId, loanId, daysBeforeDue, fk) ==
  LET Resp(outcome) ==
        [op |-> "schedulePaymentReminder", memberId |-> memberId, loanId |-> loanId,
         daysBeforeDue |-> daysBeforeDue, outcome |-> outcome]
  IN /\ nOps' = nOps + 1
     /\ IF ~LoanExists(loanId) \/ IsNull(loans[loanId].dueDate)
        THEN /\ resp' = Resp("LoanOrDueDateNotFound")
             /\ UNCHANGED reminders
        ELSE IF ~Accepted(fk, MemberExists(memberId))
        THEN /\ resp' = Resp("ForeignKeyViolation")
             /\ UNCHANGED reminders
        ELSE /\ reminders' =
                  Append(reminders,
                         ReminderRow(<<memberId>>, <<loanId>>,
                                     IF daysBeforeDue = 0 THEN "payment_due"
                                     ELSE "payment_overdue",
                                     "sms", <<loans[loanId].dueDate[1] - daysBeforeDue>>))
             /\ resp' = Resp("ok")
     /\ UNCHANGED coreTables
     /\ UNCHANGED <<guarantors, penalties, campaigns, partners, resources, backups,
                    settings, reports>>

(* ---- applyLatePenalty: 2% of the installment ---- *)
PenaltyAmount(loan) == RMul(loan.installmentAmount, Rat(2, 100))

ApplyLatePenalty(memberId, loanId, fk) ==
  LET Resp(outcome) ==
        [op |-> "applyLatePenalty", memberId |-> memberId, loanId |-> loanId,
         outcome |-> outcome]
  IN /\ nOps' = nOps + 1
     /\ IF ~LoanExists(loanId)
        THEN /\ resp' = Resp("LoanNotFound")
             /\ UNCHANGED penalties
        ELSE IF ~Accepted(fk, MemberExists(memberId))
        THEN /\ resp' = Resp("ForeignKeyViolation")
             /\ UNCHANGED penalties
        ELSE /\ penalties' = Append(penalties,
                                    PenaltyRow(memberId, <<loanId>>,
                                               PenaltyAmount(loans[loanId])))
             /\ resp' = Resp("ok")
     /\ UNCHANGED coreTables
     /\ UNCHANGED <<guarantors, reminders, campaigns, partners, resources, backups,
                    settings, reports>>

(* ---- getMemberAccessibleReports: reads only ---- *)
GetMemberAccessibleReports(memberId) ==
  /\ nOps' = nOps + 1
  /\ IF ~MemberExists(memberId)
     THEN resp' = [op |-> "getMemberAccessibleReports", memberId |-> memberId,
                   outcome |-> "MemberNotFound"]
     ELSE resp' = [op |-> "getMemberAccessibleReports", memberId |-> memberId,
                   outcome |-> "ok",
                   memberNumber |-> members[memberId].memberNumber,
                   savings |-> {i \in Ids(savings) : savings[i].memberId = memberId
                                                     /\ savings[i].isActive},
                   loans |-> {i \in Ids(loans) : loans[i].memberId = memberId}]
  /\ UNCHANGED coreTables
  /\ UNCHANGED otherTables

(* ---- enableTwoFactor: the update matches the member's row, or none ---- *)
TwoFactorSetOnly(memberId, secret) ==
  SelectSeq([i \in Ids(members) |->
               [members[i] EXCEPT !.twoFactorEnabled = TRUE, !.twoFactorSecret = secret,
                                  !.updatedAt = <<now>>]],
            LAMBDA row : \E i \in Ids(members) :
                           i = memberId /\ row.memberNumber = members[i].memberNumber)

TwoFactorSet(memberId, secret) ==
  [i \in Ids(members) |->
     IF i = memberId
     THEN [members[i] EXCEPT !.twoFactorEnabled = TRUE, !.twoFactorSecret = secret,
                             !.updatedAt = <<now>>]
     ELSE members[i]]

EnableTwoFactor(memberId, secret) ==
  /\ nOps' = nOps + 1
  /\ members' = TwoFactorSet(memberId, secret)
  /\ auditLogs' = Append(auditLogs,
                         AuditRow(<<memberId>>, "enable_2fa", "member", <<memberId>>))
  /\ resp' = [op |-> "enableTwoFactor", memberId |-> memberId, secret |-> secret,
              outcome |-> "ok"]
  /\ UNCHANGED <<savings, loans, transactions, creditChecks, loanRestructuring,
                 complianceRecords, approvals, now, inflight>>
  /\ UNCHANGED otherTables

(* ---- monitorTransactions ---- *)
SuspiciousAmount == 1000000

RecentTransactions == {i \in Ids(transactions) : transactions[i].transactionDate >= now - 1}

SuspiciousTransactions ==
  {i \in RecentTransactions : RLt(RInt(SuspiciousAmount), transactions[i].amount)}

MonitorTransactions ==
  /\ nOps' = nOps + 1
  /\ IF SuspiciousTransactions # {}
     THEN auditLogs' = Append(auditLogs,
                              AuditRow(Null, "suspicious_activity", "transactions", Null))
     ELSE UNCHANGED auditLogs
  /\ resp' = [op |-> "monitorTransactions", outcome |-> "ok",
              totalTransactions |-> Cardinality(RecentTransactions),
              suspiciousCount |-> Cardinality(SuspiciousTransactions),
              suspiciousTransactions |-> SuspiciousTransactions]
  /\ UNCHANGED <<members, savings, loans, transactions, creditChecks, loanRestructuring,
                 complianceRecords, approvals, now, inflight>>
  /\ UNCHANGED otherTables

(* ---- createCampaign, getActiveCampaigns ---- *)
CreateCampaign(name, type, targetAmount, endDate) ==
  LET Resp(outcome) == [op |-> "createCampaign", name |-> name, outcome |-> outcome]
  IN /\ nOps' = nOps + 1
     /\ IF name = "NULL" \/ type = "NULL"
        THEN /\ resp' = Resp("NotNullViolation")
             /\ UNCHANGED campaigns
        ELSE /\ campaigns' = Append(campaigns,
                                    CampaignRow(name, type, targetAmount, endDate))
             /\ resp' = Resp("ok")
     /\ UNCHANGED coreTables
     /\ UNCHANGED <<guarantors, penalties, reminders, partners, resources, backups,
                    settings, reports>>

ActiveCampaigns ==
  {i \in Ids(campaigns) :
     /\ campaigns[i].status = "active"
     /\ ~IsNull(campaigns[i].endDate)
     /\ campaigns[i].endDate[1] >= now}

GetActiveCampaigns ==
  /\ nOps' = nOps + 1
  /\ resp' = [op |-> "getActiveCampaigns", outcome |-> "ok", rows |-> ActiveCampaigns]
  /\ UNCHANGED coreTables
  /\ UNCHANGED otherTables

(* ---- addPartner ---- *)
AddPartner(name, type, agreementEnd) ==
  LET Resp(outcome) == [op |-> "addPartner", name |-> name, outcome |-> outcome]
  IN /\ nOps' = nOps + 1
     /\ IF name = "NULL" \/ type = "NULL"
        THEN /\ resp' = Resp("NotNullViolation")
             /\ UNCHANGED partners
        ELSE /\ partners' = Append(partners, PartnerRow(name, type, agreementEnd))
             /\ resp' = Resp("ok")
     /\ UNCHANGED coreTables
     /\ UNCHANGED <<guarantors, penalties, reminders, campaigns, resources, backups,
                    settings, reports>>

(* ---- recordBackup: the type left out still makes a file name ---- *)
BackupRow(backupType) ==
  [backupType |-> backupType, status |-> "completed", startedAt |-> <<now>>,
   completedAt |-> <<now>>, storageLocation |-> "/backups"]

RecordBackup(backupType) ==
  LET Resp(outcome) ==
        [op |-> "recordBackup", backupType |-> backupType, outcome |-> outcome]
  IN /\ nOps' = nOps + 1
     /\ IF backupType = "NULL"
        THEN /\ resp' = Resp("NotNullViolation")
             /\ UNCHANGED backups
        ELSE /\ backups' = Append(backups, BackupRow(backupType))
             /\ resp' = Resp("ok")
     /\ UNCHANGED coreTables
     /\ UNCHANGED <<guarantors, penalties, reminders, campaigns, partners, resources,
                    settings, reports>>

(* ---- sendMemberCommunication, broadcastToMembers ---- *)
GeneralReminder(memberId, channel) ==
  ReminderRow(<<memberId>>, Null, "general", channel, <<now>>)

SendMemberCommunication(memberId, message, channel, fk) ==
  LET Resp(outcome) ==
        [op |-> "sendMemberCommunication", memberId |-> memberId,
         channel |-> channel, outcome |-> outcome]
  IN /\ nOps' = nOps + 1
     /\ IF message = "NULL" \/ channel = "NULL"
        THEN /\ resp' = Resp("NotNullViolation")
             /\ UNCHANGED reminders
        ELSE IF ~Accepted(fk, MemberExists(memberId))
        THEN /\ resp' = Resp("ForeignKeyViolation")
             /\ UNCHANGED reminders
        ELSE /\ reminders' = Append(reminders, GeneralReminder(memberId, channel))
             /\ resp' = Resp("ok")
     /\ UNCHANGED coreTables
     /\ UNCHANGED <<guarantors, penalties, campaigns, partners, resources, backups,
                    settings, reports>>

RECURSIVE BroadcastRows(_, _)
(* one reminder an active member, in the order of the member rows read *)
BroadcastRows(ids, channel) ==
  IF ids = << >> THEN << >>
  ELSE <<GeneralReminder(Head(ids), channel)>> \o BroadcastRows(Tail(ids), channel)

BroadcastToMembers(message, channel) ==
  LET Resp(outcome, sent) ==
        [op |-> "broadcastToMembers", channel |-> channel, outcome |-> outcome,
         sent |-> sent]
      active == SelectSeq([i \in Ids(members) |-> i], LAMBDA i : members[i].isActive)
  IN /\ nOps' = nOps + 1
     /\ IF active # << >> /\ (message = "NULL" \/ channel = "NULL")
        THEN /\ resp' = Resp("NotNullViolation", 0)
             /\ UNCHANGED reminders
        ELSE /\ reminders' = reminders \o BroadcastRows(active, channel)
             /\ resp' = Resp("ok", Len(active))
     /\ UNCHANGED coreTables
     /\ UNCHANGED <<guarantors, penalties, campaigns, partners, resources, backups,
                    settings, reports>>

(* ---- addResource ---- *)
ResourceRow(title, type, category) ==
  [title |-> title, type |-> type, category |-> category, publishedAt |-> <<now>>,
   isActive |-> TRUE]

AddResource(title, type, category) ==
  LET Resp(outcome) == [op |-> "addResource", title |-> title, outcome |-> outcome]
  IN /\ nOps' = nOps + 1
     /\ IF title = "NULL" \/ type = "NULL" \/ category = "NULL"
        THEN /\ resp' = Resp("NotNullViolation")
             /\ UNCHANGED resources
        ELSE /\ resources' = Append(resources, ResourceRow(title, type, category))
             /\ resp' = Resp("ok")
     /\ UNCHANGED coreTables
     /\ UNCHANGED <<guarantors, penalties, reminders, campaigns, partners, backups,
                    settings, reports>>

(* ---- getSetting, setSetting ---- *)
SettingRows(key) == {i \in Ids(settings) : settings[i].key = key}

SettingRow(key, value, description) ==
  [key |-> key, value |-> value, description |-> description, updatedAt |-> <<now>>]

(* getSetting: the row of the key, Null without one *)
GetSetting(key) ==
  /\ nOps' = nOps + 1
  /\ \E found \in (IF SettingRows(key) = {} THEN {Null}
                   ELSE {<<settings[i]>> : i \in SettingRows(key)}) :
       resp' = [op |-> "getSetting", key |-> key, outcome |-> "ok", setting |-> found]
  /\ UNCHANGED coreTables
  /\ UNCHANGED otherTables

(* insert ... on conflict (key) do update: a second row of the key *)
UpsertSettingAppends(key, value, description) ==
  Append(settings, SettingRow(key, value, description))

(* insert ... on conflict (key) do update set value, description, updatedAt *)
UpsertSetting(key, value, description) ==
  IF SettingRows(key) = {}
  THEN Append(settings, SettingRow(key, value, description))
  ELSE [i \in Ids(settings) |->
          IF settings[i].key = key
          THEN [settings[i] EXCEPT !.value = value, !.description = description,
                                   !.updatedAt = <<now>>]
          ELSE settings[i]]

SetSetting(key, value, description) ==
  LET Resp(outcome) ==
        [op |-> "setSetting", key |-> key, value |-> value, outcome |-> outcome]
  IN /\ nOps' = nOps + 1
     /\ IF key = "NULL"
        THEN /\ resp' = Resp("NotNullViolation")
             /\ UNCHANGED settings
        ELSE /\ settings' = UpsertSetting(key, value, description)
             /\ resp' = Resp("ok")
     /\ UNCHANGED coreTables
     /\ UNCHANGED <<guarantors, penalties, reminders, campaigns, partners, resources,
                    backups, reports>>

-----------------------------------------------------------------------------
(* ---- POST /api/register ----
   A text field of the body left out is "NULL".  `stamp` is the last six
   digits of the clock's milliseconds at the moment the number is made. *)
RegisterResp(body, status, error, queries, memberNumber) ==
  [op |-> "POST /api/register", body |-> body, status |-> status, error |-> error,
   queries |-> queries, memberNumber |-> memberNumber]

(* !field of a text field: absent or empty *)
Blank(text) == text = "NULL" \/ text = ""

MembersByEmail(email) == {i \in Ids(members) : members[i].email = email}

MembersByPhoneUnread(phone) == {}

MembersByPhone(phone) == {i \in Ids(members) : members[i].phone = phone}

MembersByNumber(memberNumber) ==
  {i \in Ids(members) : members[i].memberNumber = memberNumber}

(* `HAR-${Date.now().toString().slice(-6)}` *)
MemberNumber(stamp) == "HAR-" \o stamp

NewMember(body, memberNumber) ==
  [Member(memberNumber, body.phone, TRUE, now) EXCEPT
     !.firstName = body.firstName, !.lastName = body.lastName,
     !.email = IF Blank(body.email) THEN "NULL" ELSE body.email,
     !.passwordHash = "$argon2id$"]

(* the insert of a member row: refused when the member number is taken *)
InsertMemberUnchecked(row) == TRUE

InsertMember(row) == MembersByNumber(row.memberNumber) = {}

Register(body, stamp) ==
  /\ nOps' = nOps + 1
  /\ IF Blank(body.firstName) \/ Blank(body.lastName) \/ Blank(body.phone)
        \/ Blank(body.password)
     THEN /\ resp' = RegisterResp(body, 400, "required fields", << >>, "NULL")
          /\ UNCHANGED members
     ELSE IF Len(body.password) < 6
     THEN /\ resp' = RegisterResp(body, 400, "password too short", << >>, "NULL")
          /\ UNCHANGED members
     ELSE IF ~Blank(body.email) /\ MembersByEmail(body.email) # {}
     THEN /\ resp' = RegisterResp(body, 400, "email exists", <<"members">>, "NULL")
          /\ UNCHANGED members
     ELSE LET queries == IF Blank(body.email) THEN <<"members">>
                         ELSE <<"members", "members">>
          IN IF MembersByPhone(body.phone) # {}
             THEN /\ resp' = RegisterResp(body, 400, "phone exists", queries, "NULL")
                  /\ UNCHANGED members
             ELSE IF ~InsertMember(NewMember(body, MemberNumber(stamp)))
             THEN /\ resp' = RegisterResp(body, 500, "Registration failed", queries,
                                            MemberNumber(stamp))
                  /\ UNCHANGED members
             ELSE /\ members' = Append(members, NewMember(body, MemberNumber(stamp)))
                  /\ resp' = RegisterResp(body, 200, "none", queries, MemberNumber(stamp))
  /\ UNCHANGED <<savings, loans, transactions, creditChecks, auditLogs,
                 loanRestructuring, complianceRecords, approvals, now, inflight>>
  /\ UNCHANGED otherTables

(* ---- POST /api/login ---- *)
LoginResp(body, status, found) ==
  [op |-> "POST /api/login", body |-> body, status |-> status, found |-> found]

(* findFirst: any of the matching rows, Null without one *)
FindFirst(ids) == IF ids = {} THEN {Null} ELSE {<<i>> : i \in ids}

(* the member found by the email when one is given, else by the phone when
   one is given, else by the member number *)
LoginMember(body) ==
  IF ~Blank(body.email) THEN FindFirst(MembersByEmail(body.email))
  ELSE IF ~Blank(body.phone) THEN FindFirst(MembersByPhone(body.phone))
  ELSE IF ~Blank(body.memberNumber) THEN FindFirst(MembersByNumber(body.memberNumber))
  ELSE {Null}

(* member.passwordHash && member.passwordHash !== password *)
WrongPassword(member, password) ==
  member.passwordHash \notin {"NULL", ""} /\ member.passwordHash # password

Login(body) ==
  /\ nOps' = nOps + 1
  /\ IF Blank(body.email) /\ Blank(body.phone) /\ Blank(body.memberNumber)
     THEN /\ resp' = LoginResp(body, 400, Null)
          /\ UNCHANGED members
     ELSE IF Blank(body.password)
     THEN /\ resp' = LoginResp(body, 400, Null)
          /\ UNCHANGED members
     ELSE \E m \in LoginMember(body) :
            IF IsNull(m)
            THEN /\ resp' = LoginResp(body, 401, Null)
                 /\ UNCHANGED members
            ELSE IF WrongPassword(members[m[1]], body.password)
            THEN /\ resp' = LoginResp(body, 401, m)
                 /\ UNCHANGED members
            ELSE /\ members' = [members EXCEPT ![m[1]].lastLoginAt = <<now>>]
                 /\ resp' = LoginResp(body, 200, m)
  /\ UNCHANGED <<savings, loans, transactions, creditChecks, auditLogs,
                 loanRestructuring, complianceRecords, approvals, now, inflight>>
  /\ UNCHANGED otherTables

-----------------------------------------------------------------------------
(* ---- POST /api/sacco ----
   `d` holds the fields of the body beside the action. *)
ValidActionsShort ==
  <<"credit_check", "request_guarantors", "schedule_reminder", "apply_penalty",
    "get_member_report", "enable_2fa", "monitor_transactions", "quick_loan_approval",
    "track_compliance", "add_compliance", "create_campaign", "get_campaigns",
    "add_partner", "record_backup", "send_communication", "broadcast", "add_resource",
    "request_restructuring", "approve_restructuring", "get_setting">>

(* getValidActions() *)
ValidActions ==
  <<"credit_check", "request_guarantors", "schedule_reminder", "apply_penalty",
    "get_member_report", "enable_2fa", "monitor_transactions", "quick_loan_approval",
    "track_compliance", "add_compliance", "create_campaign", "get_campaigns",
    "add_partner", "record_backup", "send_communication", "broadcast", "add_resource",
    "request_restructuring", "approve_restructuring", "get_setting", "set_setting">>

(* the default case of the switch *)
InvalidAction(action) ==
  /\ nOps' = nOps + 1
  /\ resp' = [op |-> "POST /api/sacco", action |-> action, status |-> 400,
              error |-> "Invalid action", validActions |-> ValidActions,
              queries |-> << >>]
  /\ UNCHANGED coreTables
  /\ UNCHANGED otherTables

(* the switch on the action *)
SaccoPost(action, d) ==
  CASE action = "credit_check" -> PerformCreditCheck(d.memberId, d.amount)
    [] action = "request_guarantors" -> RequestGuarantors(d.loanId, d.memberIds, d.fk)
    [] action = "schedule_reminder" ->
         SchedulePaymentReminder(d.memberId, d.loanId, d.days, d.fk)
    [] action = "apply_penalty" -> ApplyLatePenalty(d.memberId, d.loanId, d.fk)
    [] action = "get_member_report" -> GetMemberAccessibleReports(d.memberId)
    [] action = "enable_2fa" -> EnableTwoFactor(d.memberId, d.text)
    [] action = "monitor_transactions" -> MonitorTransactions
    [] action = "quick_loan_approval" ->
         \E stop \in QuickLoanStops : \E b \in FirstActiveSavingsBalance(d.memberId) :
            QuickLoanApproval(d.memberId, d.amount, stop, b)
    [] action = "track_compliance" -> TrackCompliance
    [] action = "add_compliance" -> AddComplianceRequirement
    [] action = "create_campaign" -> CreateCampaign(d.text, d.type, Null, d.date)
    [] action = "get_campaigns" -> GetActiveCampaigns
    [] action = "add_partner" -> AddPartner(d.text, d.type, d.date)
    [] action = "record_backup" -> RecordBackup(d.type)
    [] action = "send_communication" ->
         SendMemberCommunication(d.memberId, d.text, d.type, d.fk)
    [] action = "broadcast" -> BroadcastToMembers(d.text, d.type)
    [] action = "add_resource" -> AddResource(d.text, d.type, "general")
    [] action = "request_restructuring" ->
         RequestLoanRestructuring(d.loanId, "extension", d.newTerm)
    [] action = "approve_restructuring" ->
         \E stop \in ApproveStops : ApproveLoanRestructuring(d.restructureId, d.text, stop)
    [] action = "get_setting" -> GetSetting(d.key)
    [] action = "set_setting" -> SetSetting(d.key, d.text, "NULL")
    [] OTHER -> InvalidAction(action)

-----------------------------------------------------------------------------
(* ---- the office: every route of the service, on one datastore ---- *)
MaxOfficeOps == 2

Range(f) == {f[i] : i \in DOMAIN f}

(* a datastore without rows, or one with two members, the first with a
   savings account, a disbursed loan that is due and a large deposit today *)
InitOffice ==
  /\ \/ /\ members = << >>
        /\ savings = << >>
        /\ loans = << >>
        /\ transactions = << >>
     \/ /\ members = <<[Member("HAR-000001", "0711", TRUE, StartDay - 5)
                          EXCEPT !.email = "a@x.ke"],
                       Member("HAR-000002", "0722", FALSE, StartDay - 5)>>
        /\ savings = <<Saving(1, 100, TRUE)>>
        /\ loans = <<[OldLoan(1, 5000, "disbursed", <<StartDay - 2>>)
                        EXCEPT !.dueDate = <<StartDay + 20>>],
                     OldLoan(2, 300, "approved", Null)>>
        /\ transactions = <<Txn(1, "deposit", 100, StartDay - 3),
                            Txn(1, "deposit", 2000000, StartDay)>>
  /\ creditChecks = << >>
  /\ auditLogs = << >>
  /\ loanRestructuring = << >>
  /\ complianceRecords = << >>
  /\ approvals = {}
  /\ NoOtherRows
  /\ resp = NoResp
  /\ nOps = 0
  /\ now = StartDay
  /\ inflight = NoCalls

(* the case labels of the switch of POST /api/sacco *)
DispatchedActions ==
  {"credit_check", "request_guarantors", "schedule_reminder", "apply_penalty",
   "get_member_report", "enable_2fa", "monitor_transactions", "quick_loan_approval",
   "track_compliance", "add_compliance", "create_campaign", "get_campaigns",
   "add_partner", "record_backup", "send_communication", "broadcast", "add_resource",
   "request_restructuring", "approve_restructuring", "get_setting", "set_setting"}

(* the actions sent to POST /api/sacco: the dispatched ones, the listed ones
   and two others *)
RequestedActions ==
  DispatchedActions \cup Range(ValidActions) \cup {"delete_member", "CREDIT_CHECK"}

SaccoFields ==
  [memberId |-> 1, loanId |-> 1, amount |-> 150, memberIds |-> << <<2>> >>, days |-> 0,
   text |-> "x", type |-> "sms", date |-> <<StartDay + 30>>, key |-> "rate",
   newTerm |-> 6, restructureId |-> 1, fk |-> TRUE]

(* the bodies sent with an action: a field varies where the operation reads it *)
SaccoData(action) ==
  CASE action \in {"credit_check", "get_member_report", "enable_2fa",
                   "quick_loan_approval"} ->
         {[SaccoFields EXCEPT !.memberId = m] : m \in {1, 3}}
    [] action = "request_guarantors" ->
         {[SaccoFields EXCEPT !.loanId = l, !.memberIds = ms, !.fk = fk] :
            l \in {1, 3}, ms \in {Null, << <<2>> >>, << <<2, 3>> >>}, fk \in BOOLEAN}
    [] action = "schedule_reminder" ->
         {[SaccoFields EXCEPT !.memberId = m, !.loanId = l, !.days = n, !.fk = fk] :
            m \in {1, 3}, l \in {1, 2, 3}, n \in {0, 3}, fk \in BOOLEAN}
    [] action = "apply_penalty" ->
         {[SaccoFields EXCEPT !.memberId = m, !.loanId = l, !.fk = fk] :
            m \in {1, 3}, l \in {1, 3}, fk \in BOOLEAN}
    [] action \in {"create_campaign", "add_partner", "add_resource", "broadcast"} ->
         {[SaccoFields EXCEPT !.text = t] : t \in {"x", "NULL"}}
    [] action = "record_backup" -> {[SaccoFields EXCEPT !.type = t] : t \in {"full", "NULL"}}
    [] action = "send_communication" ->
         {[SaccoFields EXCEPT !.memberId = m, !.text = t, !.fk = fk] :
            m \in {1, 3}, t \in {"x", "NULL"}, fk \in BOOLEAN}
    [] action = "request_restructuring" ->
         {[SaccoFields EXCEPT !.loanId = l] : l \in {1, 3}}
    [] action = "approve_restructuring" ->
         {[SaccoFields EXCEPT !.restructureId = r] : r \in {1, 2}}
    [] action = "get_setting" -> {[SaccoFields EXCEPT !.key = k] : k \in {"rate", "fee"}}
    [] action = "set_setting" ->
         {[SaccoFields EXCEPT !.key = k, !.text = v] :
            k \in {"rate", "NULL"}, v \in {"x", "y"}}
    [] OTHER -> {SaccoFields}

SaccoPostCall ==
  /\ nOps < MaxOfficeOps
  /\ \E action \in RequestedActions : \E d \in SaccoData(action) : SaccoPost(action, d)

RegisterBody(firstName, lastName, phone, email, password) ==
  [firstName |-> firstName, lastName |-> lastName, phone |-> phone, email |-> email,
   password |-> password]

RegisterBodies ==
  {RegisterBody("Ann", "Oloo", phone, email, password) :
     phone \in {"0733", "0711"}, email \in {"NULL", "", "a@x.ke", "b@x.ke"},
     password \in {"secret", "12345"}}
  \cup {RegisterBody("NULL", "Oloo", "0733", "NULL", "secret"),
        RegisterBody("Ann", "", "0733", "NULL", "secret"),
        RegisterBody("Ann", "Oloo", "NULL", "a@x.ke", "secret"),
        RegisterBody("Ann", "Oloo", "0711", "NULL", "NULL"),
        RegisterBody("Ann", "Oloo", "0711", "NULL", "")}

(* the last six digits of the clock when the member number is made *)
Stamps == {"000001", "000003"}

RegisterCall ==
  /\ nOps < MaxOfficeOps
  /\ \E body \in RegisterBodies, stamp \in Stamps : Register(body, stamp)

LoginBody(phone, email, memberNumber, password) ==
  [phone |-> phone, email |-> email, memberNumber |-> memberNumber,
   password |-> password]

LoginBodies ==
  {LoginBody("0711", "NULL", "NULL", "secret"),
   LoginBody("0733", "NULL", "NULL", "secret"),
   LoginBody("0799", "a@x.ke", "NULL", "secret"),
   LoginBody("NULL", "NULL", "HAR-000003", "secret"),
   LoginBody("NULL", "NULL", "HAR-000002", "secret"),
   LoginBody("0711", "NULL", "NULL", "NULL"),
   LoginBody("NULL", "NULL", "NULL", "secret")}

LoginCall ==
  /\ nOps < MaxOfficeOps
  /\ \E body \in LoginBodies : Login(body)

OfficeReportBodies ==
  {ReportBody(<<"member_statement">>, m, <<StartDay - 2>>, <<StartDay>>, Null, Null) :
     m \in {<<1>>, <<3>>}}
  \cup {ReportBody(t, Null, Null, Null, Null, Null) : t \in {<<"loan_portfolio">>, <<"weekly">>}}

OfficeReportsCall ==
  /\ nOps < MaxOfficeOps
  /\ \E body \in OfficeReportBodies : ReportsPost(body)

OfficeDownloadsCall ==
  /\ nOps < MaxOfficeOps
  /\ \/ \E type \in {<<"members">>, <<"reminders">>} : DownloadsGet(type, <<"csv">>, Null, Null)
     \/ DownloadsPost(<<"savings">>, <<"json">>, <<1>>, Null)

NextOffice ==
  SaccoPostCall \/ RegisterCall \/ LoginCall \/ OfficeReportsCall \/ OfficeDownloadsCall

SpecOffice == InitOffice /\ [][NextOffice]_vars

-----------------------------------------------------------------------------
(* ---- the settings desk ---- *)
MaxSettingOps == 3

SettingKeys == {"rate", "fee"}

SettingValues == {"x", "y"}

InitSettings ==
  /\ now = StartDay
  /\ inflight = NoCalls
  /\ members = << >>
  /\ savings = << >>
  /\ loans = << >>
  /\ transactions = << >>
  /\ creditChecks = << >>
  /\ auditLogs = << >>
  /\ loanRestructuring = << >>
  /\ complianceRecords = << >>
  /\ approvals = {}
  /\ guarantors = << >>
  /\ penalties = << >>
  /\ reminders = << >>
  /\ campaigns = << >>
  /\ partners = << >>
  /\ resources = << >>
  /\ backups = << >>
  /\ reports = << >>
  /\ settings \in {<< >>, <<SettingRow("fee", "x", "NULL")>>}
  /\ resp = NoResp
  /\ nOps = 0

GetSettingCall ==
  /\ nOps < MaxSettingOps
  /\ \E key \in SettingKeys : GetSetting(key)

SetSettingCall ==
  /\ nOps < MaxSettingOps
  /\ \E key \in SettingKeys, value \in SettingValues, description \in {"NULL", "d"} :
       SetSetting(key, value, description)

NextSettings == GetSettingCall \/ SetSettingCall

SpecSettings == InitSettings /\ [][NextSettings]_vars

-----------------------------------------------------------------------------
-----------------------------------------------------------------------------
(* ---- the loan ledger: a loan is approved, and then restructured,
        penalised, guaranteed and reminded of ---- *)
MaxLedgerOps == 3

LedgerActions ==
  {"quick_loan_approval", "request_restructuring", "approve_restructuring",
   "apply_penalty", "request_guarantors", "schedule_reminder"}

(* loan 3 is the first loan the run approves *)
LedgerData(action) ==
  CASE action = "quick_loan_approval" ->
         {[SaccoFields EXCEPT !.memberId = m, !.amount = a] : m \in {1, 3}, a \in {150, 600}}
    [] action = "request_restructuring" ->
         {[SaccoFields EXCEPT !.loanId = l, !.newTerm = t] : l \in {1, 3}, t \in {6, 24}}
    [] action = "approve_restructuring" ->
         {[SaccoFields EXCEPT !.restructureId = r] : r \in {1, 2}}
    [] OTHER -> {[SaccoFields EXCEPT !.loanId = l] : l \in {1, 3}}

InitLedger ==
  /\ members = <<Member("HAR-000001", "0711", TRUE, StartDay - 5),
                 Member("HAR-000002", "0722", TRUE, StartDay - 5)>>
  /\ savings \in {<<Saving(1, 100, TRUE)>>, <<Saving(1, 1000, TRUE)>>}
  /\ loans = <<[OldLoan(1, 5000, "disbursed", <<StartDay - 2>>)
                  EXCEPT !.dueDate = <<StartDay + 20>>],
               OldLoan(2, 300, "approved", Null)>>
  /\ transactions = << >>
  /\ creditChecks = << >>
  /\ auditLogs = << >>
  /\ loanRestructuring = << >>
  /\ complianceRecords = << >>
  /\ approvals = {}
  /\ NoOtherRows
  /\ resp = NoResp
  /\ nOps = 0
  /\ now = StartDay
  /\ inflight = NoCalls

LedgerCall ==
  /\ nOps < MaxLedgerOps
  /\ \E action \in LedgerActions : \E d \in LedgerData(action) : SaccoPost(action, d)

NextLedger == LedgerCall

SpecLedger == InitLedger /\ [][NextLedger]_vars

-----------------------------------------------------------------------------
(* ---- the monitoring desk: monitorTransactions over transactions dated
        before, on the edge of, within and after the day before the call ---- *)
MaxMonitorRows == 2

MaxMonitorOps == 2

MonitorRows ==
  {Txn(1, "deposit", amt, date) :
     amt \in {500, SuspiciousAmount, SuspiciousAmount + 1},
     date \in {StartDay - 2, StartDay - 1, StartDay, StartDay + 1}}

InitMonitor ==
  /\ now = StartDay
  /\ inflight = NoCalls
  /\ members = InitMembers
  /\ savings = << >>
  /\ loans = << >>
  /\ transactions \in SeqsUpTo(MonitorRows, MaxMonitorRows)
  /\ creditChecks = << >>
  /\ auditLogs = << >>
  /\ loanRestructuring = << >>
  /\ complianceRecords = << >>
  /\ approvals = {}
  /\ NoOtherRows
  /\ resp = NoResp
  /\ nOps = 0

MonitorCall ==
  /\ nOps < MaxMonitorOps
  /\ MonitorTransactions

NextMonitor == MonitorCall

SpecMonitor == InitMonitor /\ [][NextMonitor]_vars

-----------------------------------------------------------------------------
(* ---- the scoring desk: credit checks at different times of the clock ---- *)
MaxScoringOps == 2

MaxTicks == 2

ScoringAmounts == {300, 400, 500, 600}

ScoringCheckCall ==
  /\ nOps < MaxScoringOps
  /\ \E m \in MemberIds, a \in ScoringAmounts : PerformCreditCheck(m, a)

(* a day passes between two calls *)
Tick ==
  /\ now < StartDay + MaxTicks
  /\ now' = now + 1
  /\ UNCHANGED <<members, savings, loans, transactions, creditChecks, auditLogs,
                 loanRestructuring, complianceRecords, approvals, resp, nOps, inflight>>
  /\ UNCHANGED otherTables

NextScoring == ScoringCheckCall \/ Tick

SpecScoring == InitLoanDesk /\ [][NextScoring]_vars

-----------------------------------------------------------------------------
(* ---- the export desk: downloads filtered by status and by member, over
        tables whose rows differ in both; a compliance requirement may be
        added before the download.  The requests carry no dates and no search
        text. ---- *)
MaxExportOps == 2

ExportTypes ==
  {"savings", "loans", "transactions", "penalties", "credit_checks", "guarantors",
   "reminders", "compliance", "campaigns", "partners"}

ExportStatuses ==
  {Null, <<"">>, <<"pending">>, <<"accepted">>, <<"in_progress">>, <<"compliant">>,
   <<"disbursed">>, <<"paid">>, <<"failed">>, <<"sent">>, <<"active">>, <<"completed">>}

ExportMembers == {Null, <<1>>}

InitExports ==
  /\ now = StartDay
  /\ inflight = NoCalls
  /\ members = <<Member("M1", "p1", TRUE, StartDay - 5),
                 Member("M2", "p2", FALSE, StartDay - 5)>>
  /\ savings = <<Saving(1, 100, TRUE), Saving(2, 50, FALSE)>>
  /\ loans = <<OldLoan(1, 5000, "disbursed", <<StartDay - 2>>),
               OldLoan(2, 300, "approved", Null)>>
  /\ transactions = <<Txn(1, "deposit", 100, StartDay - 1),
                      Txn(2, "loan_disbursement", 5000, StartDay - 1)>>
  /\ creditChecks = <<[memberId |-> 1, creditScore |-> 80, existingLoans |-> RInt(0),
                       latePayments |-> 0, status |-> "passed"],
                      [memberId |-> 2, creditScore |-> 20, existingLoans |-> RInt(0),
                       latePayments |-> 0, status |-> "failed"]>>
  /\ auditLogs = << >>
  /\ complianceRecords = <<[status |-> "compliant"]>>
  /\ guarantors = <<GuarantorRow(1, 2),
                    [GuarantorRow(2, 1) EXCEPT !.status = "accepted"]>>
  /\ penalties = <<PenaltyRow(1, <<1>>, RInt(8)),
                   [PenaltyRow(2, <<2>>, RInt(8)) EXCEPT !.status = "paid"]>>
  /\ reminders = <<ReminderRow(Null, Null, "general", "sms", <<StartDay - 1>>),
                   [ReminderRow(<<1>>, <<1>>, "payment_due", "sms", <<StartDay - 1>>)
                      EXCEPT !.status = "sent"]>>
  /\ campaigns = <<CampaignRow("Drive", "savings", Null, <<StartDay + 30>>),
                   [CampaignRow("Hall", "project", Null, <<StartDay - 1>>)
                      EXCEPT !.status = "completed"]>>
  /\ partners = <<PartnerRow("Bank", "lender", <<StartDay + 30>>),
                  [PartnerRow("Mill", "buyer", <<StartDay + 30>>)
                     EXCEPT !.status = "inactive"]>>
  /\ resources = << >>
  /\ backups = << >>
  /\ settings = << >>
  /\ reports = << >>
  /\ loanRestructuring = << >>
  /\ approvals = {}
  /\ resp = NoResp
  /\ nOps = 0

ExportsAddComplianceCall ==
  /\ nOps < MaxExportOps
  /\ AddComplianceRequirement

ExportsGetCall ==
  /\ nOps < MaxExportOps
  /\ \E type \in ExportTypes, memberId \in ExportMembers, status \in ExportStatuses :
       DownloadsGet(<<type>>, <<"json">>, memberId, status)

ExportsPostCall ==
  /\ nOps < MaxExportOps
  /\ \E type \in ExportTypes, memberId \in ExportMembers, status \in ExportStatuses :
       DownloadsPost(<<type>>, <<"csv">>, memberId, status)

NextExports == ExportsAddComplianceCall \/ ExportsGetCall \/ ExportsPostCall

SpecExports == InitExports /\ [][NextExports]_vars

-----------------------------------------------------------------------------
(* ---- the portfolio desk: loan portfolio reports over loans of several
        statuses, balances and members; member 3 does not exist ---- *)
MaxPortfolioLoans == 3

MaxPortfolioOps == 1

PortfolioLoanKinds ==
  {OldLoan(m, bal, st, <<StartDay - 2>>) :
     m \in {1, 2, 3}, bal \in {300, 5000}, st \in {"disbursed", "approved"}}

InitPortfolio ==
  /\ now = StartDay
  /\ inflight = NoCalls
  /\ members = <<Member("M1", "p1", TRUE, StartDay - 5),
                 [Member("M2", "p2", TRUE, StartDay - 5) EXCEPT !.firstName = "John"]>>
  /\ savings = << >>
  /\ loans \in SeqsUpTo(PortfolioLoanKinds, MaxPortfolioLoans)
  /\ transactions = << >>
  /\ creditChecks = << >>
  /\ auditLogs = << >>
  /\ loanRestructuring = << >>
  /\ complianceRecords = << >>
  /\ approvals = {}
  /\ NoOtherRows
  /\ resp = NoResp
  /\ nOps = 0

PortfolioCall ==
  /\ nOps < MaxPortfolioOps
  /\ ReportsPost(ReportBody(<<"loan_portfolio">>, Null, Null, Null, Null, Null))

NextPortfolio == PortfolioCall

SpecPortfolio == InitPortfolio /\ [][NextPortfolio]_vars

-----------------------------------------------------------------------------
(* ---- requests served concurrently ----
   A handler runs from one await to the next; the datastore runs the
   statements it receives one at a time, from whichever request sent one.
   `inflight` holds each request's position and what it has read so far. *)
MaxRegistrations == 2

MaxSummaries == 1

Registrations == inflight.registrations

Summaries == inflight.summaries

(* a registration that has passed the checks of its body *)
Registration(body, pc, status, error, memberNumber) ==
  [body |-> body, pc |-> pc, status |-> status, error |-> error,
   memberNumber |-> memberNumber]

RegistrationAnswer(call) ==
  RegisterResp(call.body, call.status, call.error,
               IF Blank(call.body.email) THEN <<"members">> ELSE <<"members", "members">>,
               call.memberNumber)

(* the request arrives: its body is read and checked, the first lookup is next *)
RegistrationArrives(body) ==
  LET Unadmitted(error) == Registration(body, "done", 400, error, "NULL")
      Admit(call) == inflight' = [inflight EXCEPT !.registrations = Append(@, call)]
  IN /\ nOps' = nOps + 1
     /\ IF Blank(body.firstName) \/ Blank(body.lastName) \/ Blank(body.phone)
           \/ Blank(body.password)
        THEN /\ resp' = RegisterResp(body, 400, "required fields", << >>, "NULL")
             /\ Admit(Unadmitted("required fields"))
        ELSE IF Len(body.password) < 6
        THEN /\ resp' = RegisterResp(body, 400, "password too short", << >>, "NULL")
             /\ Admit(Unadmitted("password too short"))
        ELSE /\ Admit(Registration(body, IF Blank(body.email) THEN "phone" ELSE "email",
                                   0, "none", "NULL"))
             /\ UNCHANGED resp
     /\ UNCHANGED members

(* await findFirst(eq(members.email, email)) and what follows it *)
RegistrationEmailLookup(r) ==
  LET call == Registrations[r]
      refused == [call EXCEPT !.pc = "done", !.status = 400, !.error = "email exists"]
  IN /\ call.pc = "email"
     /\ IF MembersByEmail(call.body.email) # {}
        THEN /\ inflight' = [inflight EXCEPT !.registrations[r] = refused]
             /\ resp' = RegisterResp(call.body, 400, "email exists", <<"members">>, "NULL")
        ELSE /\ inflight' = [inflight EXCEPT !.registrations[r].pc = "phone"]
             /\ UNCHANGED resp
     /\ UNCHANGED <<members, nOps>>

(* await findFirst(eq(members.phone, phone)), then the member number from the
   clock and await hash(password) *)
RegistrationPhoneLookup(r, stamp) ==
  LET call == Registrations[r]
      refused == [call EXCEPT !.pc = "done", !.status = 400, !.error = "phone exists"]
  IN /\ call.pc = "phone"
     /\ IF MembersByPhone(call.body.phone) # {}
        THEN /\ inflight' = [inflight EXCEPT !.registrations[r] = refused]
             /\ resp' = RegistrationAnswer(refused)
        ELSE /\ inflight' = [inflight EXCEPT !.registrations[r] =
                               [call EXCEPT !.pc = "insert",
                                            !.memberNumber = MemberNumber(stamp)]]
             /\ UNCHANGED resp
     /\ UNCHANGED <<members, nOps>>

(* await db.insert(members), then the answer; a thrown insert is answered 500 *)
RegistrationInsert(r) ==
  LET call == Registrations[r]
      row == NewMember(call.body, call.memberNumber)
      failed == [call EXCEPT !.pc = "done", !.status = 500, !.error = "Registration failed"]
      done == [call EXCEPT !.pc = "done", !.status = 200]
  IN /\ call.pc = "insert"
     /\ IF ~InsertMember(row)
        THEN /\ inflight' = [inflight EXCEPT !.registrations[r] = failed]
             /\ resp' = RegistrationAnswer(failed)
             /\ UNCHANGED members
        ELSE /\ members' = Append(members, row)
             /\ inflight' = [inflight EXCEPT !.registrations[r] = done]
             /\ resp' = RegistrationAnswer(done)
     /\ UNCHANGED nOps

(* the results of the eight queries of the monthly summary, none read yet *)
NothingRead ==
  [total |-> 0, active |-> 0, savings |-> Null, disbursed |-> Null, repayments |-> Null,
   portfolio |-> Null, byType |-> {}, new |-> 0]

(* Promise.all sends the eight queries in the order of the array *)
SummaryArrives(periodStart, periodEnd) ==
  /\ nOps' = nOps + 1
  /\ inflight' = [inflight EXCEPT !.summaries =
                    Append(@, [periodStart |-> periodStart, periodEnd |-> periodEnd,
                               pc |-> 1, read |-> NothingRead])]
  /\ UNCHANGED <<members, resp>>

(* the datastore runs the next query of the summary *)
SummaryRead(call) ==
  LET ps == call.periodStart
      pe == call.periodEnd
  IN CASE call.pc = 1 -> [call.read EXCEPT !.total = Len(members)]
       [] call.pc = 2 -> [call.read EXCEPT !.active = Cardinality(ActiveMemberRows)]
       [] call.pc = 3 ->
            [call.read EXCEPT !.savings = SqlSum(savings, "balance", ActiveSavingsRows)]
       [] call.pc = 4 ->
            [call.read EXCEPT !.disbursed =
               SqlSum(loans, "principalAmount", DisbursedInPeriodRows(ps, pe))]
       [] call.pc = 5 ->
            [call.read EXCEPT !.repayments =
               SqlSum(transactions, "amount", RepaymentRows(ps, pe))]
       [] call.pc = 6 ->
            [call.read EXCEPT !.portfolio = SqlSum(loans, "balance", PortfolioRows)]
       [] call.pc = 7 -> [call.read EXCEPT !.byType = TransactionsByType(ps, pe)]
       [] OTHER -> [call.read EXCEPT !.new = Cardinality(NewMemberRows(ps, pe))]

SummaryQuery(s) ==
  LET call == Summaries[s]
  IN /\ call.pc \in 1..8
     /\ inflight' = [inflight EXCEPT !.summaries[s] =
                       [call EXCEPT !.pc = call.pc + 1, !.read = SummaryRead(call)]]
     /\ UNCHANGED <<members, resp, nOps>>

(* the object the summary returns, from what its queries read *)
SummaryOf(call) ==
  [op |-> "generateMonthlySummaryReport",
   periodStart |-> call.periodStart, periodEnd |-> call.periodEnd,
   members |-> [total |-> CountOrZero(call.read.total),
                active |-> CountOrZero(call.read.active),
                new |-> CountOrZero(call.read.new)],
   savings |-> [totalBalance |-> OrZero(call.read.savings)],
   loans |-> [disbursed |-> OrZero(call.read.disbursed),
              repayments |-> OrZero(call.read.repayments),
              outstandingPortfolio |-> OrZero(call.read.portfolio)],
   transactions |-> call.read.byType]

SummaryReturns(s) ==
  LET call == Summaries[s]
  IN /\ call.pc = 9
     /\ inflight' = [inflight EXCEPT !.summaries[s].pc = 10]
     /\ resp' = SummaryOf(call)
     /\ UNCHANGED <<members, nOps>>

(* ---- the concurrent desk ---- *)
ConcurrentBodies ==
  {RegisterBody("Ann", "Oloo", phone, email, "secret") :
     phone \in {"0711", "0733"}, email \in {"NULL", "a@x.ke"}}
  \cup {RegisterBody("Ann", "Oloo", "0733", "NULL", "12345")}

ConcurrentMembers ==
  {<< >>,
   <<Member("HAR-000001", "0711", TRUE, StartDay - 5)>>,
   <<Member("HAR-000001", "0711", TRUE, StartDay - 5),
     [Member("HAR-000002", "0722", FALSE, StartDay - 1) EXCEPT !.email = "a@x.ke"]>>}

InitConcurrent ==
  /\ now = StartDay
  /\ inflight = NoCalls
  /\ members \in ConcurrentMembers
  /\ savings = IF members = << >> THEN << >> ELSE <<Saving(1, 100, TRUE)>>
  /\ loans = IF members = << >> THEN << >>
             ELSE <<OldLoan(1, 5000, "disbursed", <<StartDay - 2>>)>>
  /\ transactions = IF members = << >> THEN << >>
                    ELSE <<Txn(1, "loan_repayment", 100, StartDay - 1)>>
  /\ creditChecks = << >>
  /\ auditLogs = << >>
  /\ loanRestructuring = << >>
  /\ complianceRecords = << >>
  /\ approvals = {}
  /\ NoOtherRows
  /\ resp = NoResp
  /\ nOps = 0

(* what no step of the concurrent desk writes *)
ConcurrentFrame ==
  /\ UNCHANGED <<savings, loans, transactions, creditChecks, auditLogs,
                 loanRestructuring, complianceRecords, approvals, now>>
  /\ UNCHANGED otherTables

RegistrationArrivesCall ==
  /\ Len(Registrations) < MaxRegistrations
  /\ \E body \in ConcurrentBodies : RegistrationArrives(body)
  /\ ConcurrentFrame

RegistrationEmailLookupCall ==
  /\ \E r \in Ids(Registrations) : RegistrationEmailLookup(r)
  /\ ConcurrentFrame

RegistrationPhoneLookupCall ==
  /\ \E r \in Ids(Registrations), stamp \in Stamps : RegistrationPhoneLookup(r, stamp)
  /\ ConcurrentFrame

RegistrationInsertCall ==
  /\ \E r \in Ids(Registrations) : RegistrationInsert(r)
  /\ ConcurrentFrame

SummaryArrivesCall ==
  /\ Len(Summaries) < MaxSummaries
  /\ \E pe \in {StartDay - 1, StartDay} : SummaryArrives(StartDay - 2, pe)
  /\ ConcurrentFrame

SummaryQueryCall ==
  /\ \E s \in Ids(Summaries) : SummaryQuery(s)
  /\ ConcurrentFrame

SummaryReturnsCall ==
  /\ \E s \in Ids(Summaries) : SummaryReturns(s)
  /\ ConcurrentFrame

NextConcurrent ==
  \/ RegistrationArrivesCall
  \/ RegistrationEmailLookupCall
  \/ RegistrationPhoneLookupCall
  \/ RegistrationInsertCall
  \/ SummaryArrivesCall
  \/ SummaryQueryCall
  \/ SummaryReturnsCall

SpecConcurrent == InitConcurrent /\ [][NextConcurrent]_vars

-----------------------------------------------------------------------------

(* ---- what the claims speak of ---- *)

(* a step that is one call of `op` *)
Called(op) == nOps' = nOps + 1 /\ resp'.op = op

(* the call ran to its return or its throw *)
Completed(r) == r.outcome # "stopped"

(* S: the member's active savings balance, 0 when there is no active account *)
ActiveSavings(memberId) == OrZero(SavingsTotal(memberId))

AmountOverLimit(memberId, amount) == RLt(RMul(RInt(3), ActiveSavings(memberId)), RInt(amount))

ApprovedAudits(loanId) ==
  {i \in Ids(auditLogs) : auditLogs[i].action = "restructure_approved"
                          /\ auditLogs[i].entityId = <<loanId>>}

(* C1: once approveLoanRestructuring(id) has succeeded, every later completed
   approveLoanRestructuring(id) fails with the not-found or the invalid-state
   error, leaves the loans untouched and inserts no audit-log row. *)
C1_SecondApproveFails ==
  [][(/\ Called("approveLoanRestructuring")
      /\ Completed(resp')
      /\ resp'.restructureId \in approvals)
     => /\ resp'.outcome \in {"RestructureNotFound", "TermsNotSet"}
        /\ loans' = loans
        /\ auditLogs' = auditLogs]_vars

(* C2, as claimed: for an existing member with active savings S, every completed
   quickLoanApproval with amount > 3*S fails with the exceeds-limit error and
   inserts no loan. *)
C2_AlwaysExceedsLimit ==
  [][(/\ Called("quickLoanApproval")
      /\ Completed(resp')
      /\ MemberExists(resp'.memberId)
      /\ AmountOverLimit(resp'.memberId, resp'.amount))
     => /\ resp'.outcome = "ExceedsLimit"
        /\ loans' = loans]_vars

(* C2, amended: for an existing member with active savings S, every completed
   quickLoanApproval with amount > 3*S fails and inserts no loan: with the
   credit-check-failed error when the credit check it persisted has status
   'failed', with the exceeds-limit error otherwise. *)
C2_OverLimitAlwaysFails ==
  [][(/\ Called("quickLoanApproval")
      /\ Completed(resp')
      /\ MemberExists(resp'.memberId)
      /\ AmountOverLimit(resp'.memberId, resp'.amount))
     => /\ resp'.outcome =
             (IF creditChecks'[resp'.checkId].status = "failed"
              THEN "CreditCheckFailed" ELSE "ExceedsLimit")
        /\ loans' = loans]_vars

(* C2's case: an over-limit request that passed its credit check was refused *)
C2_Witness ==
  /\ resp.op = "quickLoanApproval"
  /\ resp.outcome = "ExceedsLimit"
  /\ AmountOverLimit(resp.memberId, resp.amount)
  /\ ~RIsZero(ActiveSavings(resp.memberId))
  /\ creditChecks[resp.checkId].status = "passed"

(* C3: a quickLoanApproval with amount <= 3*S whose credit check is persisted
   as 'failed' inserts no loan and no audit-log row, and when it completes it
   fails with the credit-check-failed error. *)
C3_FailedCheckRefused ==
  [][(/\ Called("quickLoanApproval")
      /\ MemberExists(resp'.memberId)
      /\ ~AmountOverLimit(resp'.memberId, resp'.amount)
      /\ creditChecks'[resp'.checkId].status = "failed")
     => /\ Completed(resp') => resp'.outcome = "CreditCheckFailed"
        /\ loans' = loans
        /\ auditLogs' = auditLogs]_vars

C3_Witness ==
  /\ resp.op = "quickLoanApproval"
  /\ resp.outcome = "CreditCheckFailed"
  /\ ~AmountOverLimit(resp.memberId, resp.amount)
  /\ creditChecks[resp.checkId].status = "failed"

(* C4: every persisted credit check has an integer score in 0..100 and status
   'passed' exactly when that score is at least 50, 'failed' otherwise. *)
C4_StatusMatchesScore ==
  \A i \in Ids(creditChecks) :
    /\ creditChecks[i].creditScore \in 0..100
    /\ creditChecks[i].status \in {"passed", "failed"}
    /\ creditChecks[i].status = "passed" <=> creditChecks[i].creditScore >= 50

(* C5: the loan row a quickLoanApproval inserts is 'approved' over 12 months
   for the requested principal, at 1.0 when the persisted credit score is at
   least 80 and 1.5 otherwise, with interest = amount * rate/100 * 12,
   total = amount + interest and installment = total / 12. *)
C5_LoanTerms ==
  [][(Called("quickLoanApproval") /\ Len(loans') # Len(loans))
     => /\ Len(loans') = Len(loans) + 1
        /\ resp'.loanId = Len(loans')
        /\ LET l == loans'[Len(loans')]
               sc == creditChecks'[resp'.checkId].creditScore
           IN /\ l.status = "approved"
              /\ l.termMonths = 12
              /\ l.memberId = resp'.memberId
              /\ l.principalAmount = RInt(resp'.amount)
              /\ l.interestRate = (IF sc >= 80 THEN <<1, 1>> ELSE <<3, 2>>)
              /\ RMul(l.interestAmount, RInt(100))
                   = RMul(RMul(l.principalAmount, l.interestRate), RInt(12))
              /\ l.totalAmount = RAdd(l.principalAmount, l.interestAmount)
              /\ RMul(l.installmentAmount, RInt(12)) = l.totalAmount]_vars

(* the loans quickLoanApproval created: the only ones with a due date *)
ApprovedLoans == {i \in Ids(loans) : ~IsNull(loans[i].dueDate)}

(* C5's case: approvals at both rates, one of them just returned *)
C5_Witness ==
  /\ resp.op = "quickLoanApproval"
  /\ resp.outcome = "ok"
  /\ \E i, j \in ApprovedLoans :
       loans[i].interestRate = <<1, 1>> /\ loans[j].interestRate = <<3, 2>>

(* C6: a quickLoanApproval that fails on its credit check or on the limit
   leaves exactly one new credit-check row, its own, and leaves the loans and
   the audit log as they were. *)
C6_FailureKeepsCheck ==
  [][(/\ Called("quickLoanApproval")
      /\ resp'.outcome \in {"CreditCheckFailed", "ExceedsLimit"})
     => /\ Len(creditChecks') = Len(creditChecks) + 1
        /\ SubSeq(creditChecks', 1, Len(creditChecks)) = creditChecks
        /\ creditChecks'[Len(creditChecks')].memberId = resp'.memberId
        /\ loans' = loans
        /\ auditLogs' = auditLogs]_vars

C6_Witness ==
  /\ resp.op = "quickLoanApproval"
  /\ resp.outcome = "ExceedsLimit"
  /\ creditChecks[resp.checkId].memberId = resp.memberId
  /\ creditChecks[resp.checkId].status = "passed"
  /\ ApprovedLoans = {}
  /\ auditLogs = << >>

(* the restructuring row an approve call names, as it was before the call *)
Named(r) == loanRestructuring[r.restructureId]

(* C7: when approveLoanRestructuring stops between its two updates, the loan
   carries the row's new term and installment while the restructuring rows and
   the audit log are as before the call; and no step ever puts a loan's terms
   back: a loan row changes only in an approve call, which writes the new
   terms of the row it names. *)
C7_PartialApprove ==
  [][/\ (Called("approveLoanRestructuring") /\ resp'.stop = "afterLoanUpdate")
        => /\ loans'[Named(resp').loanId].termMonths = Named(resp').newTerm[1]
           /\ loans'[Named(resp').loanId].installmentAmount = Named(resp').newInstallment
           /\ loanRestructuring' = loanRestructuring
           /\ auditLogs' = auditLogs
     /\ \A i \in Ids(loans) :
          loans'[i] # loans[i]
          => /\ Called("approveLoanRestructuring")
             /\ Named(resp').loanId = i
             /\ loans'[i].termMonths = Named(resp').newTerm[1]
             /\ loans'[i].installmentAmount = Named(resp').newInstallment]_vars

(* C7's case: the loan has the new terms, the row is still pending and no
   approval was ever logged *)
C7_Witness ==
  /\ resp.op = "approveLoanRestructuring"
  /\ resp.stop = "afterLoanUpdate"
  /\ Named(resp).status = "pending"
  /\ loans[Named(resp).loanId].termMonths = Named(resp).newTerm[1]
  /\ loans[Named(resp).loanId].termMonths # Named(resp).originalTerm[1]
  /\ loans[Named(resp).loanId].installmentAmount = Named(resp).newInstallment
  /\ ApprovedAudits(Named(resp).loanId) = {}

Unwritten == UNCHANGED <<loans, loanRestructuring, auditLogs>>

(* C8: approveLoanRestructuring fails with the not-found error and writes
   nothing when no row has the id, fails with the invalid-state error and
   writes nothing when the row's newTerm or newInstallment is unset; when it
   succeeds the loan has the row's new term and installment, the row is
   'approved' by the approver given, and one 'restructure_approved' audit-log
   row for that loan was appended; that row is never there without both
   updates. *)
C8_ApproveContract ==
  [][Called("approveLoanRestructuring")
     => /\ ~RestructureExists(resp'.restructureId)
           => resp'.outcome = "RestructureNotFound" /\ Unwritten
        /\ (/\ RestructureExists(resp'.restructureId)
            /\ (IsNull(Named(resp').newTerm) \/ IsNull(Named(resp').newInstallment)))
           => resp'.outcome = "TermsNotSet" /\ Unwritten
        /\ resp'.outcome = "ok"
           => /\ Len(auditLogs') = Len(auditLogs) + 1
              /\ SubSeq(auditLogs', 1, Len(auditLogs)) = auditLogs
              /\ auditLogs'[Len(auditLogs')].action = "restructure_approved"
              /\ auditLogs'[Len(auditLogs')].entityType = "loan"
              /\ auditLogs'[Len(auditLogs')].entityId = <<Named(resp').loanId>>
        /\ auditLogs' # auditLogs
           => /\ resp'.outcome = "ok"
              /\ loans'[Named(resp').loanId].termMonths = Named(resp').newTerm[1]
              /\ loans'[Named(resp').loanId].installmentAmount = Named(resp').newInstallment
              /\ loanRestructuring'[resp'.restructureId].status = "approved"
              /\ loanRestructuring'[resp'.restructureId].approvedBy = resp'.approvedBy]_vars

(* C8's case: after an approval succeeded, the row without terms was refused *)
C8_Witness ==
  /\ resp.op = "approveLoanRestructuring"
  /\ resp.outcome = "TermsNotSet"
  /\ IsNull(Named(resp).newTerm)
  /\ \E r \in approvals :
       /\ loanRestructuring[r].status = "approved"
       /\ loanRestructuring[r].approvedBy \in Approvers
       /\ ApprovedAudits(loanRestructuring[r].loanId) # {}

(* C9: trackCompliance returns rate 0 over no records and otherwise
   round(100 * compliant / total), an integer in 0..100. *)
C9_RateIsRounded ==
  resp.op = "trackCompliance"
  => /\ resp.total = Len(complianceRecords)
     /\ resp.compliant = CountStatus("compliant")
     /\ resp.complianceRate \in 0..100
     /\ resp.complianceRate =
          (IF resp.total = 0 THEN 0 ELSE MathRound(Rat(100 * resp.compliant, resp.total)))

Between(d, r) == r.periodStart <= d /\ d <= r.periodEnd

(* C10: in a monthly summary no number is null, and each one whose query
   matches no row is the number 0: the member counts, the savings total, the
   loans disbursed, the repayments and the outstanding portfolio; with no
   transaction in the period the breakdown is empty. *)
C10_ZeroWhenNoRows ==
  resp.op = "generateMonthlySummaryReport"
  => /\ \A x \in {resp.savings.totalBalance, resp.loans.disbursed,
                  resp.loans.repayments, resp.loans.outstandingPortfolio} :
          ~IsNull(x)
     /\ \A n \in {resp.members.total, resp.members.active, resp.members.new} : n \in Nat
     /\ members = << >> => resp.members.total = 0
     /\ (\A i \in Ids(members) : ~members[i].isActive) => resp.members.active = 0
     /\ (\A i \in Ids(members) : ~Between(members[i].joinedAt, resp))
        => resp.members.new = 0
     /\ (\A i \in Ids(savings) : ~savings[i].isActive)
        => resp.savings.totalBalance = <<0, 1>>
     /\ (\A i \in Ids(loans) :
           IsNull(loans[i].disbursedAt) \/ ~Between(loans[i].disbursedAt[1], resp))
        => resp.loans.disbursed = <<0, 1>>
     /\ (\A i \in Ids(transactions) :
           \/ transactions[i].transactionType # "loan_repayment"
           \/ ~Between(transactions[i].transactionDate, resp))
        => resp.loans.repayments = <<0, 1>>
     /\ (\A i \in Ids(loans) : loans[i].status # "disbursed")
        => resp.loans.outstandingPortfolio = <<0, 1>>
     /\ (\A i \in Ids(transactions) : ~Between(transactions[i].transactionDate, resp))
        => resp.transactions = {}

(* C10's case: rows in every table, none of them matched by a filtered query *)
C10_Witness ==
  /\ resp.op = "generateMonthlySummaryReport"
  /\ members # << >> /\ savings # << >> /\ loans # << >> /\ transactions # << >>
  /\ resp.members.total > 0
  /\ resp.members.active = 0
  /\ resp.members.new = 0
  /\ resp.savings.totalBalance = <<0, 1>>
  /\ resp.loans.disbursed = <<0, 1>>
  /\ resp.loans.repayments = <<0, 1>>
  /\ resp.loans.outstandingPortfolio = <<0, 1>>
  /\ resp.transactions = {}

-----------------------------------------------------------------------------
(* ---- the export formatter's claims ---- *)

RECURSIVE Split(_, _)
(* the pieces of str between the occurrences of sep *)
Split(str, sep) ==
  IF ~Includes(str, sep) THEN <<str>>
  ELSE LET i == CHOOSE j \in 1..Len(str) :
                  str[j] = sep /\ \A h \in 1..(j - 1) : str[h] # sep
       IN <<SubSeq(str, 1, i - 1)>> \o Split(SubSeq(str, i + 1, Len(str)), sep)

(* the reader C11 describes: lines split on newlines, the first line the
   header, the fields of a line split on commas *)
FromCSV(text) ==
  LET lines == Split(text, Newline)
      keys == Split(lines[1], Comma)
      row(line) ==
        LET fields == Split(line, Comma)
        IN [i \in 1..Len(keys) |->
              <<keys[i], IF i <= Len(fields) THEN JsString(fields[i]) ELSE JsUndefined>>]
  IN [r \in 1..(Len(lines) - 1) |-> row(lines[r + 1])]

PlainString(value) ==
  /\ value.t = "string"
  /\ ~Includes(value.v, Comma) /\ ~Includes(value.v, Quote) /\ ~Includes(value.v, Newline)

(* a non-empty table of rows with the same keys and plain string values,
   given to toCSV without a header list *)
PlainTable(r) ==
  /\ r.op = "toCSV"
  /\ ~r.headers.given
  /\ Len(r.data) > 0
  /\ \A i \in 1..Len(r.data) :
       /\ ObjectKeys(r.data[i]) = ObjectKeys(r.data[1])
       /\ \A k \in 1..Len(r.data[i]) : PlainString(r.data[i][k][2])

(* the keys make a header line that reads back as the keys *)
PlainKeys(r) ==
  /\ Len(r.data[1]) > 0
  /\ \A k \in 1..Len(r.data[1]) :
       ~Includes(r.data[1][k][1], Comma) /\ ~Includes(r.data[1][k][1], Newline)

(* C11, as stated: for every non-empty table of uniform rows whose values are
   strings without comma, double quote or newline, reading toCSV(rows) back
   gives the original rows. *)
C11_RoundTripAnyKeys ==
  PlainTable(resp) => FromCSV(resp.output) = resp.data

(* C11, amended: for every non-empty table of uniform rows that have at least
   one key, whose keys hold no comma and no newline and whose values are
   strings without comma, double quote or newline, reading toCSV(rows) back
   gives the original rows in their order with their keys. *)
C11_RoundTrip ==
  (PlainTable(resp) /\ PlainKeys(resp)) => FromCSV(resp.output) = resp.data

(* C11's case: two rows of two keys each, read back unchanged *)
C11_Witness ==
  /\ PlainTable(resp) /\ PlainKeys(resp)
  /\ Len(resp.data) = 2
  /\ Len(resp.data[1]) = 2
  /\ resp.data[1] # resp.data[2]
  /\ FromCSV(resp.output) = resp.data

(* a file answered by GET or POST /api/downloads *)
Download(r) ==
  /\ r.op \in {"GET /api/downloads", "POST /api/downloads"}
  /\ r.status = 200
  /\ ~Falsy(r.type)

(* C12: toCSV of an empty row sequence is the empty string, without a header
   line, also when a header list is given; a CSV download whose query matched
   no row has an empty body. *)
C12_NoRowsNoText ==
  /\ (resp.op = "toCSV" /\ Len(resp.data) = 0) => resp.output = << >>
  /\ (Download(resp) /\ resp.contentType = "text/csv" /\ Len(resp.rows) = 0)
     => resp.body = << >>

(* C12's case: toCSV called with a header list and no row *)
C12_Witness ==
  /\ resp.op = "toCSV"
  /\ resp.headers.given
  /\ Len(resp.headers.keys) > 0
  /\ resp.data = << >>
  /\ resp.output = << >>

(* the fifteen download types as the specification names them *)
NamedTypes ==
  {"members", "savings", "loans", "transactions", "penalties", "credit_checks",
   "guarantors", "reminders", "audit_logs", "compliance", "campaigns", "partners",
   "monthly_summary", "loan_portfolio", "member_statement"}

DownloadRequest(r) == r.op \in {"GET /api/downloads", "POST /api/downloads"}

(* the request names no format, or one of csv, json and excel *)
ValidFormat(r) == IsNull(r.format) \/ r.format[1] \in DownloadFormats

(* C15: a GET or POST /api/downloads request for one of the fifteen named
   types with a valid format is never refused as an invalid download type
   and never fails as an unknown download type. *)
C15_NamedTypesDispatched ==
  (/\ DownloadRequest(resp)
   /\ ~IsNull(resp.type)
   /\ resp.type[1] \in NamedTypes
   /\ ValidFormat(resp))
  => resp.error \notin {"Invalid download type", "Unknown download type"}

(* the format generateDownload is given: csv when the request names none *)
FormatOf(r) == IF IsNull(r.format) THEN "csv" ELSE r.format[1]

(* the type's switch case returns rows for the request *)
RowsFetched(r) ==
  /\ ~IsNull(r.type)
  /\ r.type[1] \in ValidTypes
  /\ r.type[1] = "member_statement"
     => ~IsNull(r.memberId) /\ MemberExists(r.memberId[1])

(* C16: a download is named '{type}_{date}.{ext}' with extension and content
   type csv, text/csv for csv, json, application/json for json and xls,
   application/vnd.ms-excel for excel; the excel body is the pretty-printed
   JSON text the json format gives for the same rows; with any other format
   generateDownload, its rows fetched, throws 'Unknown format'. *)
C16_FormatTable ==
  /\ Download(resp)
     => /\ <<FormatOf(resp), resp.filename, resp.contentType>>
             \in {<<"csv", <<resp.type[1], "_", IsoDate(now), ".csv">>, "text/csv">>,
                  <<"json", <<resp.type[1], "_", IsoDate(now), ".json">>,
                    "application/json">>,
                  <<"excel", <<resp.type[1], "_", IsoDate(now), ".xls">>,
                    "application/vnd.ms-excel">>}
        /\ FormatOf(resp) \in {"json", "excel"} => resp.body = JsonStringify(resp.rows)
  /\ (/\ resp.op = "POST /api/downloads"
      /\ RowsFetched(resp)
      /\ FormatOf(resp) \notin {"csv", "json", "excel"})
     => resp.status = 500 /\ resp.error = "Unknown format"

(* C16's case: an excel download of at least one row *)
C16_Witness ==
  /\ Download(resp)
  /\ resp.format = <<"excel">>
  /\ Len(resp.rows) > 0
  /\ resp.filename = <<resp.type[1], "_", IsoDate(now), ".xls">>
  /\ resp.contentType = "application/vnd.ms-excel"
  /\ resp.body = JsonBody(resp.rows)
  /\ Includes(resp.body, Newline)

-----------------------------------------------------------------------------
(* ---- the report engine's claims ---- *)

(* a member statement is asked for with all three required fields *)
StatementRequested(r) ==
  /\ r.reportType = <<"member_statement">>
  /\ ~FalsyNumber(r.memberId)
  /\ ~IsNull(r.periodStart)
  /\ ~IsNull(r.periodEnd)

(* C13: a member statement for an id no member has fails with 'Member not
   found' once the members have been read and before any other table is;
   POST /api/reports answers it with an error and inserts no report. *)
C13_MissingMemberNoReport ==
  [][(/\ Called("POST /api/reports")
      /\ StatementRequested(resp')
      /\ resp'.memberId[1] \notin Ids(members))
     => /\ resp'.status = 500
        /\ resp'.error = "Member not found"
        /\ resp'.queries = <<"members">>
        /\ reports' = reports]_vars

(* C13's case: a statement refused for an unknown member while other members
   exist, after a report had been saved *)
C13_Witness ==
  /\ resp.op = "POST /api/reports"
  /\ StatementRequested(resp)
  /\ resp.memberId[1] \notin Ids(members)
  /\ members # << >>
  /\ resp.error = "Member not found"
  /\ Len(reports) = 1

-----------------------------------------------------------------------------
(* ---- the routes' claims ---- *)

(* a step that is POST /api/sacco with the action *)
SaccoStep(action) == \E d \in SaccoData(action) : SaccoPost(action, d)

(* the answer of the switch's default case *)
InvalidActionAnswer(r) == r.op = "POST /api/sacco" /\ r.error = "Invalid action"

(* no table is written *)
TablesUntouched == UNCHANGED coreTables /\ UNCHANGED otherTables

(* C14: POST /api/sacco with an action getValidActions does not list is
   answered with 400 and the list of valid actions, without a read or a write
   of the datastore; an action the list holds is dispatched, and the actions
   the switch dispatches are the actions of the list. *)
C14_UnknownActionRefused ==
  [][\A action \in RequestedActions :
       SaccoStep(action)
       => IF action \in Range(ValidActions)
          THEN ~InvalidActionAnswer(resp') /\ action \in DispatchedActions
          ELSE /\ InvalidActionAnswer(resp')
               /\ action \notin DispatchedActions
               /\ resp'.status = 400
               /\ resp'.action = action
               /\ resp'.validActions = ValidActions
               /\ resp'.queries = << >>
               /\ TablesUntouched]_vars

(* C14's case: an unlisted action refused on a datastore that holds rows, some
   of them written by an earlier call *)
C14_Witness ==
  /\ InvalidActionAnswer(resp)
  /\ resp.action = "delete_member"
  /\ resp.status = 400
  /\ Len(resp.validActions) = 21
  /\ members # << >>
  /\ auditLogs # << >>

UniqueMemberNumbers(table) ==
  \A i \in Ids(table) : \A j \in Ids(table) :
     i # j => table[i].memberNumber # table[j].memberNumber

(* the registration made a member number that a member already has *)
NumberTaken(r) ==
  /\ r.memberNumber # "NULL"
  /\ \E i \in Ids(members) : members[i].memberNumber = r.memberNumber

(* C17: no two member rows ever have the same member number; a step of a
   registration, a login or a service operation leaves the member number of
   every existing row as it was; a registration whose generated number is
   already taken inserts nothing. *)
C17_MemberNumberUniqueAndFixed ==
  /\ [] UniqueMemberNumbers(members)
  /\ [][/\ \A i \in Ids(members) :
             /\ i \in Ids(members')
             /\ members'[i].memberNumber = members[i].memberNumber
        /\ (Called("POST /api/register") /\ NumberTaken(resp'))
           => members' = members /\ resp'.status = 500]_vars

(* C17's case: a registration refused for its member number, after the
   holder of that number had its two-factor fields updated *)
C17_Witness ==
  /\ resp.op = "POST /api/register"
  /\ resp.status = 500
  /\ \E i \in Ids(members) :
       /\ members[i].memberNumber = resp.memberNumber
       /\ members[i].twoFactorEnabled

(* the request names the phone, or a non-empty email, of an existing member *)
DuplicateContact(body) ==
  \/ ~Blank(body.phone) /\ \E i \in Ids(members) : members[i].phone = body.phone
  \/ ~Blank(body.email) /\ \E i \in Ids(members) : members[i].email = body.email

(* a required field is missing, or the password has fewer than 6 characters *)
InvalidRegistration(body) ==
  \/ Blank(body.firstName) \/ Blank(body.lastName)
  \/ Blank(body.phone) \/ Blank(body.password)
  \/ Len(body.password) < 6

(* C18: a registration that names the phone or the non-empty email of an
   existing member is answered with 400 and inserts no member; a registration
   without first name, last name, phone or password, or with a password
   shorter than 6 characters, is answered with 400 before the datastore is
   read or written. *)
C18_RegistrationRefused ==
  [][Called("POST /api/register")
     => /\ DuplicateContact(resp'.body)
           => resp'.status = 400 /\ members' = members
        /\ InvalidRegistration(resp'.body)
           => /\ resp'.status = 400
              /\ resp'.queries = << >>
              /\ members' = members]_vars

(* C18's case: a valid registration with a new email and the phone of an
   existing member, refused after both lookups *)
C18_Witness ==
  /\ resp.op = "POST /api/register"
  /\ ~InvalidRegistration(resp.body)
  /\ resp.body.email = "b@x.ke"
  /\ \E i \in Ids(members) : members[i].phone = resp.body.phone
  /\ resp.status = 400
  /\ resp.queries = <<"members", "members">>
  /\ Len(members) = 2

-----------------------------------------------------------------------------
(* ---- the settings' claims ---- *)

(* the values the table holds for the key *)
ValuesOf(table, key) == {table[i].value : i \in {j \in Ids(table) : table[j].key = key}}

RowsOf(table, key) == {i \in Ids(table) : table[i].key = key}

(* C19: the settings table never holds two rows of one key; setSetting(k, v)
   leaves exactly one row of k, with value v, adds a row only when k had
   none and leaves the other keys' rows as they were, so that a repeated
   setSetting(k, v) changes neither the value nor the number of rows;
   getSetting(k) returns the row of k, with the value last set, or no row
   when k has none. *)
C19_SettingsUpsert ==
  /\ [](\A key \in SettingKeys : Cardinality(RowsOf(settings, key)) <= 1)
  /\ [][/\ (Called("setSetting") /\ resp'.outcome = "ok")
           => /\ Cardinality(RowsOf(settings', resp'.key)) = 1
              /\ ValuesOf(settings', resp'.key) = {resp'.value}
              /\ Len(settings') = Len(settings)
                                  + (IF RowsOf(settings, resp'.key) = {} THEN 1 ELSE 0)
              /\ \A i \in Ids(settings) :
                   /\ settings'[i].key = settings[i].key
                   /\ settings[i].key # resp'.key => settings'[i] = settings[i]
              /\ ValuesOf(settings, resp'.key) = {resp'.value} => Len(settings') = Len(settings)
        /\ Called("getSetting")
           => /\ settings' = settings
              /\ IF RowsOf(settings, resp'.key) = {}
                 THEN IsNull(resp'.setting)
                 ELSE /\ ~IsNull(resp'.setting)
                      /\ resp'.setting[1].key = resp'.key
                      /\ {resp'.setting[1].value} = ValuesOf(settings, resp'.key)]_vars

(* C19's case: a key set twice and then read, one row in the table *)
C19_Witness ==
  /\ nOps = 3
  /\ resp.op = "getSetting"
  /\ resp.key = "rate"
  /\ Len(settings) = 1
  /\ ~IsNull(resp.setting)
  /\ resp.setting[1].value = "y"
  /\ resp.setting[1].description = "d"

-----------------------------------------------------------------------------
(* ---- the datastore's claims ---- *)

(* the seventeen tables *)
allTables ==
  <<members, savings, loans, transactions, creditChecks, guarantors, penalties,
    reminders, auditLogs, complianceRecords, campaigns, partners, resources,
    loanRestructuring, backups, settings, reports>>

(* C20: no step of a route handler, a service operation, the report engine or
   the export formatter deletes a row: the ids of each of the seventeen
   tables after the step include its ids before the step. *)
C20_NoRowDeleted ==
  [][\A t \in 1..Len(allTables) : Ids(allTables[t]) \subseteq Ids(allTables'[t])]_vars

(* C20's case: a member row was updated and another inserted, the table
   holding all its rows *)
C20_Witness ==
  /\ Len(members) = 3
  /\ members[1].twoFactorEnabled
  /\ auditLogs # << >>
  /\ resp.op = "POST /api/register"
  /\ resp.status = 200

-----------------------------------------------------------------------------
(* ---- the loan ledger's claims ---- *)

(* balance = totalAmount - paidAmount *)
Balanced(loan) == loan.balance = RSub(loan.totalAmount, loan.paidAmount)

SameLedger(a, b) ==
  /\ a.balance = b.balance
  /\ a.totalAmount = b.totalAmount
  /\ a.paidAmount = b.paidAmount

(* C21: a loan row that quickLoanApproval inserts has paidAmount = 0 and
   balance = totalAmount - paidAmount; no step of an operation changes the
   balance, totalAmount or paidAmount of an existing loan row, so every loan
   of the ledger keeps the equality. *)
C21_BalanceKept ==
  /\ [](\A i \in Ids(loans) : Balanced(loans[i]))
  /\ [][/\ \A i \in Ids(loans) : i \in Ids(loans') /\ SameLedger(loans'[i], loans[i])
        /\ (Called("quickLoanApproval") /\ resp'.loanId # 0)
           => /\ Len(loans') = Len(loans) + 1
              /\ resp'.loanId = Len(loans')
              /\ loans'[resp'.loanId].paidAmount = RInt(0)
              /\ loans'[resp'.loanId].totalAmount =
                   RAdd(loans'[resp'.loanId].principalAmount,
                        loans'[resp'.loanId].interestAmount)
              /\ Balanced(loans'[resp'.loanId])]_vars

(* C21's case: the loan the run approved was restructured, the restructuring
   approved and its terms written to the loan *)
C21_Witness ==
  /\ resp.op = "approveLoanRestructuring"
  /\ resp.outcome = "ok"
  /\ loanRestructuring[resp.restructureId].loanId = 3
  /\ Len(loans) = 3
  /\ loans[3].termMonths = 24
  /\ loans[3].interestAmount # RInt(0)
  /\ Balanced(loans[3])

-----------------------------------------------------------------------------
(* ---- the monitoring desk's claims ---- *)

(* the transactions of the last 24 hours *)
LastDay == {i \in Ids(transactions) : /\ now - 1 <= transactions[i].transactionDate
                                      /\ transactions[i].transactionDate <= now}

LargeOf(ids) == {i \in ids : RLt(RInt(1000000), transactions[i].amount)}

AlertsIn(table) == {i \in Ids(table) : table[i].action = "suspicious_activity"}

(* C22: monitorTransactions flags exactly the transactions of the last 24
   hours whose amount is above 1,000,000, inserts one suspicious_activity
   audit-log row when one is flagged and none otherwise, and returns
   suspiciousCount = the number flagged <= totalTransactions = the number of
   transactions of the last 24 hours. *)
C22_FlagsLastDay ==
  [][Called("monitorTransactions")
     => /\ resp'.suspiciousTransactions = LargeOf(LastDay)
        /\ resp'.suspiciousCount = Cardinality(LargeOf(LastDay))
        /\ resp'.totalTransactions = Cardinality(LastDay)
        /\ resp'.suspiciousCount <= resp'.totalTransactions
        /\ Len(auditLogs') = Len(auditLogs) + (IF LargeOf(LastDay) # {} THEN 1 ELSE 0)
        /\ Cardinality(AlertsIn(auditLogs')) =
             Cardinality(AlertsIn(auditLogs)) + (IF LargeOf(LastDay) # {} THEN 1 ELSE 0)]_vars

-----------------------------------------------------------------------------
(* ---- the scoring desk's claims ---- *)

(* B: the summed balance of the member's disbursed loans, 0 without one *)
DisbursedBalance(memberId) == OrZero(ExistingLoansTotal(memberId))

(* n: the member's loan_repayment transactions dated before the call *)
PastRepayments(memberId) ==
  Cardinality({i \in Ids(transactions) :
                 /\ transactions[i].memberId = memberId
                 /\ transactions[i].transactionType = "loan_repayment"
                 /\ transactions[i].transactionDate < now})

(* d(L, S) *)
SavingsRatioDeduction(L, S) ==
  IF RIsZero(S) THEN 0
  ELSE IF RLe(RInt(L), RMul(RInt(3), S)) THEN 0
  ELSE IF RLe(RInt(L), RMul(RInt(5), S)) THEN 20
  ELSE 50

(* 100 - min(50, B/10000) - d(L, S) - min(30, 5n) *)
ScoreFormula(B, S, L, n) ==
  RSub(RSub(RSub(RInt(100), RMin(RInt(50), RDivInt(B, 10000))),
            RInt(SavingsRatioDeduction(L, S))),
       RInt(Min(30, 5 * n)))

CheckedOk(r) == r.op = "performCreditCheck" /\ r.outcome = "ok"

(* C23: the unrounded score of performCreditCheck is
   100 - min(50, B/10000) - d(L, S) - min(30, 5n); the persisted creditScore is
   that score rounded and kept within 0..100 and the status is taken from it;
   a call that follows a call for the same member and amount, with the same
   count of past repayments, persists the same creditScore and status. *)
C23_ScoreFormula ==
  [][(Called("performCreditCheck") /\ CheckedOk(resp'))
     => LET m == resp'.memberId
            L == resp'.loanAmount
            row == creditChecks'[resp'.checkId]
        IN /\ resp'.score = ScoreFormula(DisbursedBalance(m), ActiveSavings(m), L,
                                         PastRepayments(m))
           /\ row.creditScore = Max(0, Min(100, MathRound(resp'.score)))
           /\ (CheckedOk(resp) /\ resp.memberId = m /\ resp.loanAmount = L
               /\ creditChecks[resp.checkId].latePayments = row.latePayments)
              => /\ row.creditScore = creditChecks[resp.checkId].creditScore
                 /\ row.status = creditChecks[resp.checkId].status]_vars

(* C23's case: two checks of one member and amount on different days, the
   amount between three and five times the savings, the loan deduction at its
   cap, the repayments below theirs *)
C23_Witness ==
  /\ CheckedOk(resp)
  /\ now > StartDay
  /\ Len(creditChecks) = 2
  /\ creditChecks[1] = creditChecks[2]
  /\ resp.memberId = 1
  /\ ActiveSavings(1) = RInt(100)
  /\ resp.loanAmount = 500
  /\ RLe(RInt(500000), DisbursedBalance(1))
  /\ PastRepayments(1) = 4
  /\ resp.score = RInt(10)

-----------------------------------------------------------------------------
(* ---- the export formatter's claims: the fields of a line ---- *)

RECURSIVE SplitOutside(_, _, _, _)
(* the pieces of str between the occurrences of sep that are outside double
   quotes; a piece keeps its quotes *)
SplitOutside(str, sep, inQuotes, piece) ==
  IF str = << >> THEN <<piece>>
  ELSE IF Head(str) = Quote
  THEN SplitOutside(Tail(str), sep, ~inQuotes, Append(piece, Quote))
  ELSE IF Head(str) = sep /\ ~inQuotes
  THEN <<piece>> \o SplitOutside(Tail(str), sep, FALSE, << >>)
  ELSE SplitOutside(Tail(str), sep, inQuotes, Append(piece, Head(str)))

(* the field is wrapped in double quotes *)
Wrapped(field) ==
  Len(field) >= 2 /\ field[1] = Quote /\ field[Len(field)] = Quote

RECURSIVE Undoubled(_)
(* str with each pair of double quotes read as one *)
Undoubled(str) ==
  IF str = << >> THEN << >>
  ELSE IF Len(str) >= 2 /\ str[1] = Quote /\ str[2] = Quote
  THEN <<Quote>> \o Undoubled(SubSeq(str, 3, Len(str)))
  ELSE <<Head(str)>> \o Undoubled(Tail(str))

(* the string a field stands for *)
FieldValue(field) ==
  IF Wrapped(field) THEN Undoubled(SubSeq(field, 2, Len(field) - 1)) ELSE field

(* the string value of row[key]: empty for null, undefined and a missing key *)
ValueString(row, key) ==
  LET present == {i \in 1..Len(row) : row[i][1] = key}
  IN IF present = {} THEN << >>
     ELSE LET value == row[CHOOSE i \in present : TRUE][2]
          IN IF value.t \in {"null", "undefined"} THEN << >>
             ELSE IF value.t = "number" THEN <<ToString(value.v)>>
             ELSE value.v

NeedsQuotes(str) == Includes(str, Comma) \/ Includes(str, Quote) \/ Includes(str, Newline)

HeaderKeys(r) == IF r.headers.given THEN r.headers.keys ELSE ObjectKeys(r.data[1])

(* the data lines of the output: what follows the header line, split at the
   newlines outside double quotes *)
DataLines(r) ==
  LET header == Join(HeaderKeys(r), <<Comma>>)
  IN Tail(SplitOutside(SubSeq(r.output, Len(header) + 1, Len(r.output)),
                       Newline, FALSE, << >>))

(* the fields of a data line; a line for no key has none *)
FieldsOf(line, keys) ==
  IF keys = << >> /\ line = << >> THEN << >> ELSE SplitOutside(line, Comma, FALSE, << >>)

(* C24: the output of toCSV for a non-empty table starts with the header
   line and has one data line per row; a data line has one field per header
   key, in the order of the header; the field of a key stands for the string
   value of the row's value, the empty string for null, undefined and a
   missing key; it is wrapped in double quotes, its double quotes doubled,
   exactly when that string holds a comma, a double quote or a newline, and
   is the string itself otherwise. *)
C24_FieldsOfALine ==
  (resp.op = "toCSV" /\ Len(resp.data) > 0)
  => LET keys == HeaderKeys(resp)
         header == Join(keys, <<Comma>>)
         lines == DataLines(resp)
     IN /\ SubSeq(resp.output, 1, Len(header)) = header
        /\ Len(resp.output) > Len(header)
        /\ resp.output[Len(header) + 1] = Newline
        /\ Len(lines) = Len(resp.data)
        /\ \A r \in 1..Len(lines) :
             LET fields == FieldsOf(lines[r], keys)
             IN /\ Len(fields) = Len(keys)
                /\ \A i \in 1..Len(keys) :
                     LET str == ValueString(resp.data[r], keys[i])
                     IN /\ FieldValue(fields[i]) = str
                        /\ Wrapped(fields[i]) <=> NeedsQuotes(str)
                        /\ ~NeedsQuotes(str) => fields[i] = str

(* C24's case: two rows written under a header list that names the keys in
   another order and a key no row has; a value with a comma and one with a
   double quote in the first row, null and a number in the second *)
C24_Witness ==
  /\ resp.op = "toCSV"
  /\ resp.headers = Headers(<< <<"m">>, <<"k">>, <<"z">> >>)
  /\ Len(resp.data) = 2
  /\ ValueString(resp.data[1], <<"k">>) = <<"x", Comma>>
  /\ ValueString(resp.data[1], <<"m">>) = <<Quote, "x">>
  /\ Get(resp.data[2], <<"k">>) = JsNull
  /\ Get(resp.data[2], <<"m">>) = JsNumber(7)
  /\ DataLines(resp) = << <<Quote, Quote, Quote, "x", Quote, Comma, Quote, "x", Comma, Quote, Comma>>,
                          <<"7", Comma, Comma>> >>

-----------------------------------------------------------------------------
(* ---- the export desk's claims ---- *)

(* the download types that have a status column *)
StatusTypes ==
  {"loans", "penalties", "credit_checks", "guarantors", "reminders", "compliance",
   "campaigns", "partners"}

(* the download types whose rows belong to a member *)
MemberTypes ==
  {"savings", "loans", "transactions", "penalties", "credit_checks", "guarantors",
   "reminders"}

TableOf(type) ==
  CASE type = "savings" -> savings
    [] type = "loans" -> loans
    [] type = "transactions" -> transactions
    [] type = "penalties" -> penalties
    [] type = "credit_checks" -> creditChecks
    [] type = "guarantors" -> guarantors
    [] type = "reminders" -> reminders
    [] type = "compliance" -> complianceRecords
    [] type = "campaigns" -> campaigns
    [] type = "partners" -> partners

(* the row is of the member: reminders hold a nullable member id *)
OfMember(type, row, memberId) ==
  IF type = "reminders" THEN row.memberId = memberId ELSE <<row.memberId>> = memberId

(* a status is supplied that a row of the type's table carries *)
StatusSupplied(r) ==
  /\ r.type[1] \in StatusTypes
  /\ ~Falsy(r.filter)
  /\ \E i \in Ids(TableOf(r.type[1])) : TableOf(r.type[1])[i].status = r.filter[1]

MemberSupplied(r) == r.type[1] \in MemberTypes /\ ~FalsyNumber(r.memberId)

(* the rows the claim lets through *)
Restricted(r) ==
  LET table == TableOf(r.type[1])
  IN {i \in Ids(table) :
        /\ StatusSupplied(r) => table[i].status = r.filter[1]
        /\ MemberSupplied(r) => OfMember(r.type[1], table[i], r.memberId)}

(* C25: a download of a type with a status column, asked with a status that
   a row of its table carries, exports exactly the rows of that status; a
   download of a member-linked type asked with a member id, and with no
   status or one that a row carries, exports exactly that member's rows of
   that status. *)
C25_FiltersRestrict ==
  (Download(resp) /\ resp.type[1] \in ExportTypes
   /\ (StatusSupplied(resp) \/ (MemberSupplied(resp) /\ Falsy(resp.filter))))
  => /\ Len(resp.rows) = Cardinality(Restricted(resp))
     /\ StatusSupplied(resp)
        => \A k \in 1..Len(resp.rows) :
              Get(resp.rows[k], <<"Status">>) = Str(resp.filter[1])

-----------------------------------------------------------------------------
(* ---- the portfolio desk's claims ---- *)

(* the loan portfolio report a request has just saved *)
PortfolioSaved ==
  /\ resp.op = "POST /api/reports"
  /\ resp.reportType = <<"loan_portfolio">>
  /\ resp.status = 200

RECURSIVE CountSum(_)
(* the counts of summary entries, added up *)
CountSum(entries) ==
  IF entries = {} THEN 0
  ELSE LET e == CHOOSE x \in entries : TRUE IN e.count + CountSum(entries \ {e})

(* C26: the 'loans' of a loan portfolio report are exactly the disbursed
   loans, each once, in non-increasing order of balance, each with the first
   name, last name and member number of the member whose id is the loan's
   memberId; its 'summary' has one entry for each status that a loan has and
   no other, the counts add up to the number of loans, and the count of the
   'disbursed' entry is the length of 'loans'. *)
C26_PortfolioReport ==
  PortfolioSaved
  => LET data == reports[Len(reports)].reportData
         rows == data.loans
     IN /\ {rows[k].id : k \in 1..Len(rows)} =
             {i \in Ids(loans) : loans[i].status = "disbursed"}
        /\ \A k \in 1..Len(rows) : \A j \in 1..Len(rows) :
             /\ k # j => rows[k].id # rows[j].id
             /\ k < j => RLe(rows[j].balance, rows[k].balance)
        /\ \A k \in 1..Len(rows) :
             /\ rows[k].balance = loans[rows[k].id].balance
             /\ rows[k].memberId = loans[rows[k].id].memberId
             /\ rows[k].memberId \in Ids(members)
                => /\ rows[k].firstName = members[rows[k].memberId].firstName
                   /\ rows[k].lastName = members[rows[k].memberId].lastName
                   /\ rows[k].memberNumber = members[rows[k].memberId].memberNumber
        /\ {e.status : e \in data.summary} = {loans[i].status : i \in Ids(loans)}
        /\ Cardinality(data.summary) = Cardinality({loans[i].status : i \in Ids(loans)})
        /\ CountSum(data.summary) = Len(loans)
        /\ \A e \in data.summary : e.status = "disbursed" => e.count = Len(rows)

(* C26's case: a report over three loans, two of them disbursed with
   different balances for different members, the larger second in the table *)
C26_Witness ==
  /\ PortfolioSaved
  /\ Len(loans) = 3
  /\ LET rows == reports[Len(reports)].reportData.loans
     IN /\ Len(rows) = 2
        /\ rows[1].id > rows[2].id
        /\ RLt(rows[2].balance, rows[1].balance)
        /\ rows[1].firstName = "John"
        /\ rows[2].firstName = "Jane"
  /\ Cardinality(reports[Len(reports)].reportData.summary) = 2

-----------------------------------------------------------------------------
(* ---- what the operations overwrite ---- *)

(* the row keeps every field outside `fields` *)
RowKeeps(old, new, fields) ==
  /\ DOMAIN new = DOMAIN old
  /\ \A f \in (DOMAIN old) \ fields : new[f] = old[f]

(* the fields the description names as overwritten, by the table's place in
   allTables: members, loans, loan_restructuring, settings *)
ListedFields(t) ==
  CASE t = 1 -> {"twoFactorEnabled", "twoFactorSecret", "lastLoginAt"}
    [] t = 3 -> {"termMonths", "installmentAmount", "updatedAt"}
    [] t = 14 -> {"status", "approvedAt", "approvedBy"}
    [] t = 16 -> {"value", "description", "updatedAt"}
    [] OTHER -> {}

(* the fields the update statements set: enableTwoFactor sets members.updatedAt too *)
WrittenFields(t) == IF t = 1 THEN ListedFields(1) \cup {"updatedAt"} ELSE ListedFields(t)

RowsKeep(Fields(_)) ==
  \A t \in 1..Len(allTables) : \A i \in Ids(allTables[t]) :
     RowKeeps(allTables[t][i], allTables'[t][i], Fields(t))

(* a report or export request changes no table, but for rows added to reports *)
ReadsOnly ==
  (\/ Called("POST /api/reports")
   \/ Called("GET /api/downloads")
   \/ Called("POST /api/downloads"))
  => /\ \A t \in 1..(Len(allTables) - 1) : allTables'[t] = allTables[t]
     /\ Len(reports') >= Len(reports)
     /\ SubSeq(reports', 1, Len(reports)) = reports

(* C27 as stated: every step leaves each existing row of each table as it was
   but for loans.termMonths/installmentAmount/updatedAt,
   loan_restructuring.status/approvedAt/approvedBy, members' two 2FA fields
   and lastLoginAt, and a setting's value/description/updatedAt; transaction
   and savings rows are never changed; report and export requests change no
   table but reports, by insertion. *)
C27_OnlyListedFields ==
  [][RowsKeep(ListedFields) /\ ReadsOnly]_vars

(* C27 with members.updatedAt among the overwritten fields: every step leaves
   each existing row of each table as it was but for the fields the update
   statements set, which are the listed ones and members.updatedAt;
   transaction and savings rows are never changed; report and export requests
   change no table but reports, by insertion. *)
C27_OnlyWrittenFields ==
  [][RowsKeep(WrittenFields) /\ ReadsOnly]_vars

(* C27's case: a member's row after enableTwoFactor and a login, next to
   savings and transaction rows *)
C27_Witness ==
  /\ Len(members) = 2
  /\ members[1].twoFactorEnabled
  /\ members[1].updatedAt = <<now>>
  /\ members[1].joinedAt = StartDay - 5
  /\ ~IsNull(members[1].lastLoginAt)
  /\ savings # << >>
  /\ transactions # << >>

-----------------------------------------------------------------------------
(* ---- the concurrent desk's claims ---- *)

(* C28: every summary that generateMonthlySummaryReport returns, registrations
   running beside it or not, is consistent: its count of active members and
   its count of new members are each at most its count of all members. *)
C28_ConsistentSummary ==
  resp.op = "generateMonthlySummaryReport"
  => /\ resp.members.active <= resp.members.total
     /\ resp.members.new <= resp.members.total

(* the registrations answered so far that gave the same phone *)
SamePhone(r, q) ==
  /\ r # q
  /\ Registrations[r].pc = "done"
  /\ Registrations[q].pc = "done"
  /\ Registrations[r].body.phone = Registrations[q].body.phone

(* C29: whatever the interleaving of the registration requests, no two member
   rows have the same phone number, and of two answered requests with the
   same phone at most one inserted a member, the other being answered 400. *)
C29_OnePhoneOneMember ==
  /\ \A i \in Ids(members), j \in Ids(members) :
       i # j => members[i].phone # members[j].phone
  /\ \A r \in Ids(Registrations), q \in Ids(Registrations) :
       (SamePhone(r, q) /\ Registrations[r].status = 200)
       => Registrations[q].status = 400

-----------------------------------------------------------------------------
(* ---- loans and savings ---- *)

(* the balances of the member's active savings accounts *)
ActiveBalances(memberId) ==
  {savings[i].balance : i \in {j \in Ids(savings) : /\ savings[j].memberId = memberId
                                                    /\ savings[j].isActive}}

(* no active savings account, or none with a balance other than 0 *)
NoActiveSavings(memberId) == \A b \in ActiveBalances(memberId) : RIsZero(b)

(* the score without a deduction for the ratio of the amount to the savings *)
ScoreWithoutRatio(memberId) ==
  PersistedScore(RSub(RSub(RInt(BaseScore), LoanDeduction(ExistingLoansTotal(memberId))),
                      RInt(LatePaymentDeduction(LatePaymentsCount(memberId)))))

(* C30: a quickLoanApproval call for a member with no active savings account,
   or with active savings of balance 0, inserts no loan: its credit check is
   scored without a savings-ratio deduction, and when that check passed the
   call fails with the exceeds-maximum error; and the principal of every loan
   a quickLoanApproval call inserts is at most 3 times the balance the call
   read, which is the balance of an active savings account of the member. *)
C30_NoSavingsNoLoan ==
  [][Called("quickLoanApproval")
     => LET m == resp'.memberId
            check == creditChecks'[Len(creditChecks')]
            loan == loans'[Len(loans')]
        IN /\ (MemberExists(m) /\ NoActiveSavings(m))
              => /\ loans' = loans
                 /\ resp'.outcome \in {"CreditCheckFailed", "ExceedsLimit", "stopped"}
                 /\ Len(creditChecks') = Len(creditChecks) + 1
                 /\ check.creditScore = ScoreWithoutRatio(m)
                 /\ (check.status = "passed" /\ resp'.outcome # "stopped")
                    => resp'.outcome = "ExceedsLimit"
           /\ loans' # loans
              => /\ Len(loans') = Len(loans) + 1
                 /\ resp'.balanceRead \in ActiveBalances(m)
                 /\ RLe(loan.principalAmount, RMul(resp'.balanceRead, RInt(3)))]_vars

(* C30's case: a loan was approved for a member with savings, and then a call
   for a member without active savings, whose credit check passed, failed with
   the exceeds-maximum error *)
C30_Witness ==
  /\ resp.op = "quickLoanApproval"
  /\ resp.outcome = "ExceedsLimit"
  /\ MemberExists(resp.memberId)
  /\ NoActiveSavings(resp.memberId)
  /\ creditChecks[Len(creditChecks)].status = "passed"
  /\ \E i \in Ids(loans) : loans[i].status = "approved" /\ loans[i].memberId = 2

====
